---- MODULE Spec2Model ----
(***************************************************************************)
(* Compaction of expanded JSON-LD (pchampin/json-ld): the value compactor, *)
(* the list branch of the compaction driver, the collection compactor and  *)
(* Document::compact_with, as pure operators applied by one action per     *)
(* public entry point.  Init draws the arguments of one call; the action   *)
(* of the entry point computes the returned JSON value.                    *)
(***************************************************************************)
EXTENDS Integers, Sequences, FiniteSets, TLC

VARIABLES
    pc,                   \* "call": arguments chosen, "done": the call returned
    entry,                \* the entry point that is called
    element,              \* the value, object or sequence of indexed objects
    index,                \* Option<&str>: the @index of the element
    active_context,       \* the active context passed by the caller
    type_scoped_context,  \* the type-scoped context passed by the caller
    active_property,      \* Option<&str>
    options,              \* compaction::Options
    json_context,         \* context.as_json() (Document::compact_with only)
    result,               \* the value returned by the call
    visited,              \* items of the collection whose compaction was begun
    call,                 \* the arguments of the last call of add_value
    frames,               \* the collection loops that are suspended or running
    in_flight,            \* the process_with calls that are awaited
    loads                 \* the process_with calls issued so far, in order

vars == <<pc, entry, element, index, active_context, type_scoped_context,
          active_property, options, json_context, result, visited, call,
          frames, in_flight, loads>>

\* Longest collection, list or expanded document that Init draws.
MaxItems == 2

\* Longest array that add_value is let to build under a key.
MaxArray == 3

\* The number of insertions into one node.
MaxCalls == 3

\* Option::None of the string-valued options (index, active property,
\* type, language, direction of a value).
None == "None"

-----------------------------------------------------------------------------
(* JSON values: json::Value, tagged by variant.                            *)

Null == [k |-> "null"]
Bool(b) == [k |-> "bool", b |-> b]
Num(n) == [k |-> "num", n |-> n]
Str(s) == [k |-> "str", s |-> s]
Arr(items) == [k |-> "arr", items |-> items]
Obj(m) == [k |-> "obj", m |-> m]

\* Result<J, Error>::Err(e); every Ok(j) is the JSON value j itself.
Err(e) == [k |-> "err", e |-> e]

\* panic!(..): the call aborts.
Panic(msg) == [k |-> "panic", msg |-> msg]

\* J::Object::default()
EmptyObject == [x \in {} |-> Null]

\* MapInsert::insert: the entry of key is set, an earlier one is replaced.
insert(map, key, value) ==
    [x \in (DOMAIN map) \cup {key} |-> IF x = key THEN value ELSE map[x]]

is_null(j) == j.k = "null"

is_empty(j) ==
    CASE j.k = "null" -> TRUE
      [] j.k = "bool" -> ~j.b
      [] j.k = "num"  -> j.n = 0
      [] j.k = "str"  -> j.s = ""
      [] j.k = "arr"  -> j.items = <<>>
      [] j.k = "obj"  -> DOMAIN j.m = {}

-----------------------------------------------------------------------------
(* Term definitions and contexts.                                          *)

\* Option<Nullable<_>> of a language or direction mapping: not set, set to
\* null, or set to a tag.
Unset == "unset"
ExplicitNull == "null"

\* TermDefinition::default()
DefaultDefinition ==
    [value |-> None, prefix |-> FALSE, protected |-> FALSE,
     reverse_property |-> FALSE, base_url |-> None, typ |-> None,
     language |-> Unset, direction |-> Unset, context |-> <<>>,
     nest |-> None, index |-> None, container |-> {}]

\* A context: its term definitions, its defaults and its previous context
\* (<<>> for none, <<c>> for Some(c)).
Context(terms, default_language, default_base_direction, previous_context) ==
    [terms |-> terms, default_language |-> default_language,
     default_base_direction |-> default_base_direction,
     previous_context |-> previous_context]

\* Context::get(term): the definitions of ctx hold an entry for term.
defines(ctx, term) == term \in DOMAIN ctx.terms

\* Terms in ascending length, then lexicographic order: the order in which
\* the inverse context enumerates them.
TermOrder ==
    <<"p", "q", "id", "ctx", "dir", "idx", "val", "json", "lang", "list",
      "type", "graph", "value">>

\* The non-keyword IRIs of the model.
IriP == "http://ex/p"
IriT1 == "http://ex/T1"
IriT2 == "http://ex/T2"

\* compact_iri(ctx, iri, vocab = true, reverse = false) with no value hint:
\* the first term, in the order of the inverse context, that the context
\* maps to iri with an empty container; the IRI or keyword itself when
\* there is none.
compact_iri(ctx, iri) ==
    LET cands == {i \in 1..Len(TermOrder) :
                    /\ defines(ctx, TermOrder[i])
                    /\ ctx.terms[TermOrder[i]].value = iri
                    /\ ctx.terms[TermOrder[i]].container = {}}
    IN IF cands = {} THEN iri
       ELSE TermOrder[CHOOSE i \in cands : \A j \in cands : i <= j]

\* Local::process_with(local_context, active_context, .., with_override()):
\* a local context that does not process fails with InvalidLocalContext;
\* otherwise the result is a new context: the definitions of the local
\* context replace those of the active context, its defaults replace the
\* defaults they set, and the active context becomes the previous context.
process_with(local_context, ctx) ==
    IF ~local_context.valid
    THEN [ok |-> FALSE, error |-> "InvalidLocalContext"]
    ELSE [ok |-> TRUE,
          context |->
            Context([t \in (DOMAIN ctx.terms) \cup (DOMAIN local_context.terms) |->
                        IF t \in DOMAIN local_context.terms
                        THEN local_context.terms[t] ELSE ctx.terms[t]],
                    IF local_context.language = Unset
                    THEN ctx.default_language ELSE local_context.language,
                    ctx.default_base_direction,
                    <<ctx>>)]

-----------------------------------------------------------------------------
(* Values (object/value.rs) and the value compactor (compaction/value.rs). *)

\* Value::Literal(lit, ty): lit is Null, a boolean, a number or a string.
Literal(lit, ty) == [variant |-> "Literal", lit |-> lit, ty |-> ty]

\* Value::LangString(ls)
LangString(str, language, direction) ==
    [variant |-> "LangString", str |-> str, language |-> language,
     direction |-> direction]

\* Value::Json(json)
Json(json) == [variant |-> "Json", json |-> json]

\* The definition of the active property: <<>> for None, <<def>> for Some.
property_definition(ctx, property) ==
    IF property # None /\ defines(ctx, property)
    THEN <<ctx.terms[property]>> ELSE <<>>

\* The context the value is compacted in when the local context of the
\* active property is not entered.
value_active_context_incoming(ctx, property) ==
    [ok |-> TRUE, context |-> ctx]

\* The context the value is compacted in: the local context of the active
\* property's definition, when it has one, processed with override against
\* the active context.
value_active_context(ctx, property) ==
    LET def == property_definition(ctx, property)
    IN IF def # <<>> /\ def[1].context # <<>>
       THEN process_with(def[1].context[1], ctx)
       ELSE [ok |-> TRUE, context |-> ctx]

\* The language with a mapping set to null taken for no mapping.
language_of_defaulted(ctx, def) ==
    IF def = <<>> \/ def[1].language \in {Unset, ExplicitNull}
    THEN ctx.default_language
    ELSE def[1].language

\* The language mapping of the active property if any, otherwise the
\* default language of the active context.
language_of(ctx, def) ==
    IF def = <<>> \/ def[1].language = Unset THEN ctx.default_language
    ELSE IF def[1].language = ExplicitNull THEN None ELSE def[1].language

\* The direction mapping of the active property if any, otherwise the
\* default base direction of the active context.
direction_of(ctx, def) ==
    IF def = <<>> \/ def[1].direction = Unset THEN ctx.default_base_direction
    ELSE IF def[1].direction = ExplicitNull THEN None ELSE def[1].direction

type_mapping_of(def) == IF def = <<>> THEN None ELSE def[1].typ

container_mapping_of(def) == IF def = <<>> THEN {} ELSE def[1].container

\* remove_index with the container of the property left out.
remove_index_unindexed(idx, container_mapping) == idx = None

remove_index_of(idx, container_mapping) ==
    (idx # None /\ "@index" \in container_mapping) \/ idx = None

\* The Literal arm without the case of a string under a language or
\* direction: every matching literal is returned as its scalar.
compact_literal_scalar(value, ctx, language, direction, type_mapping, remove_index) ==
    IF value.ty = type_mapping /\ remove_index
    THEN [return |-> TRUE, json |-> value.lit]
    ELSE LET with_value ==
                insert(EmptyObject, compact_iri(ctx, "@value"), value.lit)
         IN [return |-> FALSE,
             object |-> IF value.ty # None
                        THEN insert(with_value, compact_iri(ctx, "@type"),
                                    Str(compact_iri(ctx, value.ty)))
                        ELSE with_value]

\* The Literal arm of the match on the value.
compact_literal(value, ctx, language, direction, type_mapping, remove_index) ==
    IF value.ty = type_mapping /\ remove_index
    THEN IF value.lit.k # "str" THEN [return |-> TRUE, json |-> value.lit]
         ELSE IF value.ty # None \/ (language = None /\ direction = None)
              THEN [return |-> TRUE, json |-> value.lit]
              ELSE [return |-> FALSE,
                    object |-> insert(EmptyObject, compact_iri(ctx, "@value"),
                                      value.lit)]
    ELSE LET with_value ==
                insert(EmptyObject, compact_iri(ctx, "@value"), value.lit)
         IN [return |-> FALSE,
             object |-> IF value.ty # None
                        THEN insert(with_value, compact_iri(ctx, "@type"),
                                    Str(compact_iri(ctx, value.ty)))
                        ELSE with_value]

\* The LangString arm with an absent language or direction of the string
\* matching only an absent one of the property.
compact_lang_string_strict(ls, ctx, language, direction, remove_index) ==
    IF remove_index /\ language = ls.language /\ direction = ls.direction
    THEN [return |-> TRUE, json |-> Str(ls.str)]
    ELSE LET with_value ==
                insert(EmptyObject, compact_iri(ctx, "@value"), Str(ls.str))
             with_language ==
                IF ls.language # None
                THEN insert(with_value, compact_iri(ctx, "@language"),
                            Str(ls.language))
                ELSE with_value
         IN [return |-> FALSE,
             object |-> IF ls.direction # None
                        THEN insert(with_language,
                                    compact_iri(ctx, "@direction"),
                                    Str(ls.direction))
                        ELSE with_language]

\* The LangString arm.
compact_lang_string(ls, ctx, language, direction, remove_index) ==
    IF /\ remove_index
       /\ (ls.language = None \/ language = ls.language)
       /\ (ls.direction = None \/ direction = ls.direction)
    THEN [return |-> TRUE, json |-> Str(ls.str)]
    ELSE LET with_value ==
                insert(EmptyObject, compact_iri(ctx, "@value"), Str(ls.str))
             with_language ==
                IF ls.language # None
                THEN insert(with_value, compact_iri(ctx, "@language"),
                            Str(ls.language))
                ELSE with_value
         IN [return |-> FALSE,
             object |-> IF ls.direction # None
                        THEN insert(with_language,
                                    compact_iri(ctx, "@direction"),
                                    Str(ls.direction))
                        ELSE with_language]

\* The Json arm with remove_index left out of the test.
compact_json_indexed(value, ctx, type_mapping, remove_index) ==
    IF type_mapping = "@json"
    THEN [return |-> TRUE, json |-> value.json]
    ELSE [return |-> FALSE,
          object |-> insert(insert(EmptyObject, compact_iri(ctx, "@value"),
                                   value.json),
                            compact_iri(ctx, "@type"),
                            Str(compact_iri(ctx, "@json")))]

\* The Json arm.
compact_json(value, ctx, type_mapping, remove_index) ==
    IF type_mapping = "@json" /\ remove_index
    THEN [return |-> TRUE, json |-> value.json]
    ELSE [return |-> FALSE,
          object |-> insert(insert(EmptyObject, compact_iri(ctx, "@value"),
                                   value.json),
                            compact_iri(ctx, "@type"),
                            Str(compact_iri(ctx, "@json")))]

\* The attachment of @index under the keyword itself, not its compacted form.
attach_index_keyword(object, ctx, idx, remove_index) ==
    IF ~remove_index /\ idx # None
    THEN insert(object, "@index", Str(idx))
    ELSE object

\* The trailing attachment of @index to the object that was built.
attach_index(object, ctx, idx, remove_index) ==
    IF ~remove_index /\ idx # None
    THEN insert(object, compact_iri(ctx, "@index"), Str(idx))
    ELSE object

\* The Value Compaction algorithm, in the context ctx that was entered.
value_compaction(value, idx, ctx, property) ==
    LET def == property_definition(ctx, property)
        language == language_of(ctx, def)
        direction == direction_of(ctx, def)
        type_mapping == type_mapping_of(def)
        container_mapping == container_mapping_of(def)
        remove_index == remove_index_of(idx, container_mapping)
        arm == CASE value.variant = "Literal" ->
                      compact_literal(value, ctx, language, direction,
                                      type_mapping, remove_index)
                 [] value.variant = "LangString" ->
                      compact_lang_string(value, ctx, language, direction,
                                          remove_index)
                 [] value.variant = "Json" ->
                      compact_json(value, ctx, type_mapping, remove_index)
    IN IF arm.return THEN arm.json
       ELSE Obj(attach_index(arm.object, ctx, idx, remove_index))

compact_indexed_value_with(value, idx, ctx, property) ==
    LET entered == value_active_context(ctx, property)
    IN IF ~entered.ok THEN Err(entered.error)
       ELSE value_compaction(value, idx, entered.context, property)

-----------------------------------------------------------------------------
(* Objects (object/mod.rs) and the compaction driver (compaction/mod.rs).  *)

\* Indexed<T>: a value and its optional @index.
Indexed(inner, idx) == [inner |-> inner, index |-> idx]

\* Object::Value, Object::Node, Object::List
ValueObject(value) == [kind |-> "Value", value |-> value]
NodeObject(node) == [kind |-> "Node", node |-> node]
ListObject(list) == [kind |-> "List", list |-> list]

\* Node::with_id(id) and Node::new() (id None): a node with no types,
\* graph, included nodes or properties.
Node(id) == [id |-> id]

RECURSIVE add_value(_, _, _, _)
RECURSIVE add_each(_, _, _)

\* add_value with no seeding of an absent entry.
add_value_unseeded(map, key, value, as_array) ==
    LET seeded ==
            IF key \in DOMAIN map
            THEN IF map[key].k = "arr" THEN map
                 ELSE insert(map, key, Arr(<<map[key]>>))
            ELSE map
    IN IF value.k = "arr" THEN add_each(seeded, key, value.items)
       ELSE IF key \in DOMAIN seeded
            THEN insert(seeded, key, Arr(Append(seeded[key].items, value)))
            ELSE insert(seeded, key, value)

\* add_value with an array value pushed as one element.
add_value_unsplit(map, key, value, as_array) ==
    LET seeded ==
            IF key \in DOMAIN map
            THEN IF map[key].k = "arr" THEN map
                 ELSE insert(map, key, Arr(<<map[key]>>))
            ELSE IF as_array THEN insert(map, key, Arr(<<>>)) ELSE map
    IN IF key \in DOMAIN seeded
       THEN insert(seeded, key, Arr(Append(seeded[key].items, value)))
       ELSE insert(seeded, key, value)

\* add_value with an entry that is not an array left as it is by the first
\* match.
add_value_unwrapped(map, key, value, as_array) ==
    LET seeded ==
            IF key \in DOMAIN map THEN map
            ELSE IF as_array THEN insert(map, key, Arr(<<>>)) ELSE map
    IN IF value.k = "arr" THEN add_each(seeded, key, value.items)
       ELSE IF key \in DOMAIN seeded
            THEN IF seeded[key].k = "arr"
                 THEN insert(seeded, key,
                             Arr(Append(seeded[key].items, value)))
                 ELSE insert(seeded, key, Panic("unreachable"))
            ELSE insert(seeded, key, value)

\* add_value(map, key, value, as_array); the map after the call.
add_value(map, key, value, as_array) ==
    LET seeded ==
            IF key \in DOMAIN map
            THEN IF map[key].k = "arr" THEN map
                 ELSE insert(map, key, Arr(<<map[key]>>))
            ELSE IF as_array THEN insert(map, key, Arr(<<>>)) ELSE map
    IN IF value.k = "arr" THEN add_each(seeded, key, value.items)
       ELSE IF key \in DOMAIN seeded
            THEN IF seeded[key].k = "arr"
                 THEN insert(seeded, key,
                             Arr(Append(seeded[key].items, value)))
                 ELSE insert(seeded, key, Panic("unreachable"))
            ELSE insert(seeded, key, value)

\* for value in values { add_value(map, key, value, false) }
add_each(map, key, values) ==
    IF values = <<>> THEN map
    ELSE add_each(add_value(map, key, Head(values), FALSE), key, Tail(values))

\* The node compactor, for a node that holds at most an @id: the previous
\* context is restored unless the node is a single @id entry, the local
\* context of the active property is entered, and the @id is emitted under
\* the compacted @id key.
compact_indexed_node_with(node, idx, ctx, type_scoped, property, opts) ==
    LET restored == IF ctx.previous_context # <<>> /\ node.id = None
                    THEN ctx.previous_context[1] ELSE ctx
        def == property_definition(type_scoped, property)
        entered == IF def # <<>> /\ def[1].context # <<>>
                   THEN process_with(def[1].context[1], restored)
                   ELSE [ok |-> TRUE, context |-> restored]
    IN IF ~entered.ok THEN Err(entered.error)
       ELSE IF node.id = None THEN Obj(EmptyObject)
       ELSE Obj(insert(EmptyObject, compact_iri(entered.context, "@id"),
                       Str(node.id)))

\* No error is taken from the compacted items: the loop goes on past a
\* failing item.
first_error_recovered(compacted) == <<>>

\* The first error among the compacted items, in iteration order: the item
\* at which `?` returns.
first_error(compacted) ==
    LET bad == {i \in 1..Len(compacted) : compacted[i].k \in {"err", "panic"}}
    IN IF bad = {} THEN <<>>
       ELSE <<compacted[CHOOSE i \in bad : \A j \in bad : i <= j]>>

\* Every compacted item pushed to the result array, null or not.
non_null_all(compacted) == compacted

\* The items that are pushed to the result array.
non_null(compacted) == SelectSeq(compacted, LAMBDA j : ~is_null(j))

\* The return of compact_collection_with without the test of the container
\* of the active property.
collection_result_any_container(array, ctx, property, opts) ==
    IF \/ array = <<>>
       \/ Len(array) > 1
       \/ ~opts.compact_arrays
       \/ property = "@graph" \/ property = "@set"
    THEN Arr(array)
    ELSE array[1]

\* The return of compact_collection_with, from the array that was built.
collection_result(array, ctx, property, opts) ==
    LET def == property_definition(ctx, property)
        list_or_set == def # <<>> /\ ("@list" \in def[1].container
                                      \/ "@set" \in def[1].container)
    IN IF \/ array = <<>>
          \/ Len(array) > 1
          \/ ~opts.compact_arrays
          \/ property = "@graph" \/ property = "@set"
          \/ list_or_set
       THEN Arr(array)
       ELSE array[1]

\* The active context of the List arm with the local context processed
\* against the context that came in, the previous context not restored
\* before.
list_active_context_unrestored(ctx, type_scoped, property) ==
    LET restored == IF ctx.previous_context # <<>>
                    THEN ctx.previous_context[1] ELSE ctx
        def == property_definition(type_scoped, property)
    IN IF def # <<>> /\ def[1].context # <<>>
       THEN process_with(def[1].context[1], ctx)
       ELSE [ok |-> TRUE, context |-> restored]

\* The active context of the List arm: the previous context is restored,
\* then the local context of the definition found in the type-scoped
\* context is processed against it.
list_active_context(ctx, type_scoped, property) ==
    LET restored == IF ctx.previous_context # <<>>
                    THEN ctx.previous_context[1] ELSE ctx
        def == property_definition(type_scoped, property)
    IN IF def # <<>> /\ def[1].context # <<>>
       THEN process_with(def[1].context[1], restored)
       ELSE [ok |-> TRUE, context |-> restored]

\* list_container of the List arm.
list_container_of(type_scoped, property) ==
    LET def == property_definition(type_scoped, property)
    IN def # <<>> /\ "@list" \in def[1].container

\* The @index entry of the List arm, added whatever the container of the
\* active property.
list_with_index_always(object, idx, ctx, property) ==
    IF idx # None
    THEN insert(object, compact_iri(ctx, "@index"), Str(idx))
    ELSE object

\* The @index entry of the List arm, added to the object that holds @list.
list_with_index(object, idx, ctx, property) ==
    LET def == property_definition(ctx, property)
        index_container == def # <<>> /\ "@index" \in def[1].container
    IN IF idx # None /\ ~index_container
       THEN insert(object, compact_iri(ctx, "@index"), Str(idx))
       ELSE object

RECURSIVE compact_indexed_with(_, _, _, _, _, _)
RECURSIVE compact_collection_with(_, _, _, _, _)
RECURSIVE compact_property(_, _, _, _, _)

\* Compact for Indexed<V>
compact_with(item, ctx, type_scoped, property, opts) ==
    compact_indexed_with(item.inner, item.index, ctx, type_scoped, property,
                         opts)

\* CompactIndexed::compact_indexed_with
compact_indexed_with(object, idx, ctx, type_scoped, property, opts) ==
    CASE object.kind = "Value" ->
           compact_indexed_value_with(object.value, idx, ctx, property)
      [] object.kind = "Node" ->
           compact_indexed_node_with(object.node, idx, ctx, type_scoped,
                                     property, opts)
      [] object.kind = "List" ->
           LET entered == list_active_context(ctx, type_scoped, property)
           IN IF ~entered.ok THEN Err(entered.error)
              ELSE IF list_container_of(type_scoped, property)
              THEN compact_collection_with(object.list, entered.context,
                                           entered.context, property, opts)
              ELSE LET built == compact_property(EmptyObject, "@list",
                                                 object.list, entered.context,
                                                 opts)
                   IN IF ~built.ok THEN built.error
                      ELSE Obj(list_with_index(built.object, idx,
                                               entered.context, property))

\* The number of passes of the loop of compact_collection_with: the loop
\* is left by `?` at the first item whose compaction fails.
items_compacted(items, ctx, type_scoped, property, opts) ==
    LET compacted == [i \in 1..Len(items) |->
                        compact_with(items[i], ctx, type_scoped, property,
                                     opts)]
        bad == {i \in 1..Len(items) : compacted[i].k \in {"err", "panic"}}
    IN IF bad = {} THEN Len(items)
       ELSE CHOOSE i \in bad : \A j \in bad : i <= j

\* compact_collection_with with the items after the first compacted under
\* the context that the value compactor entered for the first.
compact_collection_with_entered(items, ctx, type_scoped, property, opts) ==
    LET entered == value_active_context(ctx, property)
        later == IF entered.ok THEN entered.context ELSE ctx
        compacted == [i \in 1..Len(items) |->
                        compact_with(items[i], IF i = 1 THEN ctx ELSE later,
                                     type_scoped, property, opts)]
        failed == first_error(compacted)
    IN IF failed # <<>> THEN failed[1]
       ELSE collection_result(non_null(compacted), ctx, property, opts)

compact_collection_with(items, ctx, type_scoped, property, opts) ==
    LET compacted == [i \in 1..Len(items) |->
                        compact_with(items[i], ctx, type_scoped, property,
                                     opts)]
        failed == first_error(compacted)
    IN IF failed # <<>> THEN failed[1]
       ELSE collection_result(non_null(compacted), ctx, property, opts)

\* compact_property(result, expanded_property, expanded_value, ctx,
\* inside_reverse = false, options) for a keyword property: every item is
\* compacted under the compacted key and merged with add_value; an empty
\* value leaves an empty array under the key.
compact_property(object, expanded_property, expanded_value, ctx, opts) ==
    LET key == compact_iri(ctx, expanded_property)
        as_array == key \in {"@graph", "@list"} \/ ~opts.compact_arrays
    IN IF expanded_value = <<>>
       THEN [ok |-> TRUE, object |-> insert(object, key, Arr(<<>>))]
       ELSE LET compacted == compact_with(Head(expanded_value), ctx, ctx, key,
                                          opts)
            IN IF compacted.k \in {"err", "panic"}
               THEN [ok |-> FALSE, error |-> compacted]
               ELSE IF Tail(expanded_value) = <<>>
               THEN [ok |-> TRUE,
                     object |-> add_value(object, key, compacted, as_array)]
               ELSE compact_property(
                        add_value(object, key, compacted, as_array),
                        expanded_property, Tail(expanded_value), ctx, opts)

\* The top-level compaction with a lone item compacted by itself whatever
\* compact_arrays is.
document_compacted_unwrapped(set, context, opts) ==
    IF Len(set) = 1
    THEN compact_with(set[1], context, context, None, opts)
    ELSE compact_collection_with(set, context, context, None, opts)

\* The top-level compaction of Document::compact_with: a lone item is
\* compacted by itself when compact_arrays is set, the set otherwise.
document_compacted(set, context, opts) ==
    IF Len(set) = 1 /\ opts.compact_arrays
    THEN compact_with(set[1], context, context, None, opts)
    ELSE compact_collection_with(set, context, context, None, opts)

\* The root object with the array placed under the keyword @graph itself.
document_root_keyword(compacted, context, json) ==
    IF compacted.k \notin {"arr", "obj"}
    THEN Panic("invalid compact document")
    ELSE LET map == IF compacted.k = "arr"
                    THEN IF compacted.items # <<>>
                         THEN insert(EmptyObject, "@graph", compacted)
                         ELSE EmptyObject
                    ELSE compacted.m
         IN IF DOMAIN map # {} /\ ~is_null(json) /\ ~is_empty(json)
            THEN Obj(insert(map, "@context", json))
            ELSE Obj(map)

\* The root object with the context attached to an empty root too.
document_root_empty(compacted, context, json) ==
    IF compacted.k \notin {"arr", "obj"}
    THEN Panic("invalid compact document")
    ELSE LET map == IF compacted.k = "arr"
                    THEN IF compacted.items # <<>>
                         THEN insert(EmptyObject,
                                     compact_iri(context, "@graph"),
                                     compacted)
                         ELSE EmptyObject
                    ELSE compacted.m
         IN IF ~is_null(json) /\ ~is_empty(json)
            THEN Obj(insert(map, "@context", json))
            ELSE Obj(map)

\* The root object with the context placed under the compacted form of
\* @context.
document_root_compacted_context(compacted, context, json) ==
    IF compacted.k \notin {"arr", "obj"}
    THEN Panic("invalid compact document")
    ELSE LET map == IF compacted.k = "arr"
                    THEN IF compacted.items # <<>>
                         THEN insert(EmptyObject,
                                     compact_iri(context, "@graph"),
                                     compacted)
                         ELSE EmptyObject
                    ELSE compacted.m
         IN IF DOMAIN map # {} /\ ~is_null(json) /\ ~is_empty(json)
            THEN Obj(insert(map, compact_iri(context, "@context"), json))
            ELSE Obj(map)

\* The root object of Document::compact_with, from the compacted value.
document_root(compacted, context, json) ==
    IF compacted.k \notin {"arr", "obj"}
    THEN Panic("invalid compact document")
    ELSE LET map == IF compacted.k = "arr"
                    THEN IF compacted.items # <<>>
                         THEN insert(EmptyObject,
                                     compact_iri(context, "@graph"),
                                     compacted)
                         ELSE EmptyObject
                    ELSE compacted.m
         IN IF DOMAIN map # {} /\ ~is_null(json) /\ ~is_empty(json)
            THEN Obj(insert(map, "@context", json))
            ELSE Obj(map)

\* Document::compact_with, from the outcome of expand_with.
document_compact_with(expanded, context, json, opts) ==
    IF ~expanded.ok THEN Err(expanded.error)
    ELSE LET compacted == document_compacted(expanded.set, context, opts)
         IN IF compacted.k \in {"err", "panic"} THEN compacted
            ELSE document_root(compacted, context, json)

-----------------------------------------------------------------------------
(* The suspension points of a compaction: every compactor is an `async     *)
(* move` block whose calls are awaited one after the other.  A frame is a  *)
(* running loop over items; a load is a call of process_with, the only     *)
(* call that reaches the loader.                                           *)

\* The process_with call of the value compactor: <<>> when the definition
\* of the active property has no local context.
value_load(ctx, property) ==
    LET def == property_definition(ctx, property)
    IN IF def # <<>> /\ def[1].context # <<>>
       THEN <<[local |-> def[1].context[1], against |-> ctx]>>
       ELSE <<>>

\* The process_with call of the List arm: the local context of the
\* definition found in the type-scoped context, against the restored
\* context.
list_load(ctx, type_scoped, property) ==
    LET restored == IF ctx.previous_context # <<>>
                    THEN ctx.previous_context[1] ELSE ctx
        def == property_definition(type_scoped, property)
    IN IF def # <<>> /\ def[1].context # <<>>
       THEN <<[local |-> def[1].context[1], against |-> restored]>>
       ELSE <<>>

\* The process_with call of the node compactor.
node_load(node, ctx, type_scoped, property) ==
    LET restored == IF ctx.previous_context # <<>> /\ node.id = None
                    THEN ctx.previous_context[1] ELSE ctx
        def == property_definition(type_scoped, property)
    IN IF def # <<>> /\ def[1].context # <<>>
       THEN <<[local |-> def[1].context[1], against |-> restored]>>
       ELSE <<>>

\* The process_with call that the compaction of an item starts with.
pending_load(item, ctx, type_scoped, property) ==
    CASE item.inner.kind = "Value" -> value_load(ctx, property)
      [] item.inner.kind = "Node" ->
           node_load(item.inner.node, ctx, type_scoped, property)
      [] item.inner.kind = "List" -> list_load(ctx, type_scoped, property)

\* A loop over items, not yet suspended.
Frame(items, ctx, type_scoped, property) ==
    [items |-> items, ctx |-> ctx, ts |-> type_scoped, property |-> property,
     phase |-> "next"]

\* A loop that goes on while the call it started is still pending.
suspended_detached(frame) == FALSE

\* `.await`: the loop is suspended until the call it started completes.
suspended(frame) == frame.phase = "awaiting"

\* The loop a list item is compacted by, under the context the List arm
\* entered: compact_collection_with under the active property when the
\* property has a list container, compact_property under the compacted
\* @list key otherwise.
list_frame(item, entered, type_scoped, property) ==
    Frame(item.inner.list, entered, entered,
          IF list_container_of(type_scoped, property)
          THEN property ELSE compact_iri(entered, "@list"))

\* The stack once the first item of the top frame has entered the context
\* it is compacted in: the top frame moves to its next item, and the loop
\* of a list item runs above it.
advanced(stack, entered) ==
    LET top == stack[Len(stack)]
        item == Head(top.items)
        below == SubSeq(stack, 1, Len(stack) - 1)
        moved == [top EXCEPT !.items = Tail(@), !.phase = "next"]
    IN IF item.inner.kind = "List"
       THEN below \o <<moved, list_frame(item, entered, top.ts, top.property)>>
       ELSE below \o <<moved>>

-----------------------------------------------------------------------------
(* Term definitions compared (context/definition.rs).                      *)

\* The comparison with the protected flag compared too.
definition_eq_protected(self, other) ==
    /\ self.protected = other.protected
    /\ self.prefix = other.prefix
    /\ self.reverse_property = other.reverse_property
    /\ self.language = other.language
    /\ self.direction = other.direction
    /\ self.nest = other.nest
    /\ self.index = other.index
    /\ self.container = other.container
    /\ self.base_url = other.base_url
    /\ self.value = other.value
    /\ self.typ = other.typ
    /\ self.context = other.context

\* PartialEq for TermDefinition: self == other.
definition_eq(self, other) ==
    /\ self.prefix = other.prefix
    /\ self.reverse_property = other.reverse_property
    /\ self.language = other.language
    /\ self.direction = other.direction
    /\ self.nest = other.nest
    /\ self.index = other.index
    /\ self.container = other.container
    /\ self.base_url = other.base_url
    /\ self.value = other.value
    /\ self.typ = other.typ
    /\ self.context = other.context

-----------------------------------------------------------------------------
(* Nodes (object/node.rs).  An Option is <<>> for None and <<x>> for       *)
(* Some(x); a HashSet is the sequence of its items in iteration order; a   *)
(* HashMap is a function from its keys.                                    *)

\* A map with no entry.
NoProperties == [x \in {} |-> <<>>]

\* struct Node
NodeOf(id, types, graph, included, properties, reverse_properties) ==
    [id |-> id, types |-> types, graph |-> graph, included |-> included,
     properties |-> properties, reverse_properties |-> reverse_properties]

\* Node::new()
node_new == NodeOf(None, <<>>, <<>>, <<>>, NoProperties, NoProperties)

\* Node::with_id(id)
node_with_id(id) == NodeOf(id, <<>>, <<>>, <<>>, NoProperties, NoProperties)

\* Node::is_empty
node_is_empty(self) ==
    /\ self.types = <<>>
    /\ self.graph = <<>>
    /\ self.included = <<>>
    /\ DOMAIN self.properties = {}
    /\ DOMAIN self.reverse_properties = {}

\* Node::is_graph
is_graph(self) ==
    /\ self.graph # <<>>
    /\ self.types = <<>>
    /\ self.included = <<>>
    /\ DOMAIN self.properties = {}
    /\ DOMAIN self.reverse_properties = {}

\* Node::is_simple_graph
is_simple_graph(self) == self.id = None /\ is_graph(self)

\* The test of an unnamed graph without the test of the identifier.
is_unnamed_graph_named(self) ==
    /\ self.graph # <<>>
    /\ self.types = <<>>
    /\ self.included = <<>>
    /\ DOMAIN self.properties = {}
    /\ DOMAIN self.reverse_properties = {}

\* Node::is_unnamed_graph
is_unnamed_graph(self) ==
    /\ self.graph # <<>>
    /\ self.id = None
    /\ self.types = <<>>
    /\ self.included = <<>>
    /\ DOMAIN self.properties = {}
    /\ DOMAIN self.reverse_properties = {}

\* Node::into_unnamed_graph: Ok(graph) or Err(self).
node_into_unnamed_graph(self) ==
    IF is_unnamed_graph(self)
    THEN [ok |-> TRUE, graph |-> self.graph[1]]
    ELSE [ok |-> FALSE, node |-> self]

\* Node::has_key(key): key is a keyword or the reference of a property.
has_key(self, key) ==
    CASE key = "@id" -> self.id # None
      [] key = "@type" -> self.types # <<>>
      [] key = "@graph" -> self.graph # <<>>
      [] key = "@included" -> self.included # <<>>
      [] key = "@reverse" -> DOMAIN self.reverse_properties # {}
      [] key \in {"@value", "@list", "@set", "@index", "@context"} -> FALSE
      [] OTHER -> key \in DOMAIN self.properties

\* Node::get(prop): the objects of the property, in the order of the
\* vector; none when the node has no such property.
get(self, prop) ==
    IF prop \in DOMAIN self.properties THEN self.properties[prop] ELSE <<>>

\* map with the entry of key set to value (HashMap::insert).
with_entry(map, key, value) ==
    [x \in (DOMAIN map) \cup {key} |-> IF x = key THEN value ELSE map[x]]

\* Node::insert with the vector of the property replaced by the value.
node_insert_replacing(self, prop, value) ==
    [self EXCEPT !.properties = with_entry(@, prop, <<value>>)]

\* Node::insert(prop, value)
node_insert(self, prop, value) ==
    IF prop \in DOMAIN self.properties
    THEN [self EXCEPT !.properties[prop] = Append(@, value)]
    ELSE [self EXCEPT !.properties = with_entry(@, prop, <<value>>)]

\* Node::insert_all(prop, values)
node_insert_all(self, prop, values) ==
    IF prop \in DOMAIN self.properties
    THEN [self EXCEPT !.properties[prop] = @ \o values]
    ELSE [self EXCEPT !.properties = with_entry(@, prop, values)]

\* Node::insert_reverse(reverse_prop, reverse_value)
node_insert_reverse(self, reverse_prop, reverse_value) ==
    IF reverse_prop \in DOMAIN self.reverse_properties
    THEN [self EXCEPT !.reverse_properties[reverse_prop] =
                          Append(@, reverse_value)]
    ELSE [self EXCEPT !.reverse_properties =
                          with_entry(@, reverse_prop, <<reverse_value>>)]

\* Node::insert_all_reverse(reverse_prop, reverse_values)
node_insert_all_reverse(self, reverse_prop, reverse_values) ==
    IF reverse_prop \in DOMAIN self.reverse_properties
    THEN [self EXCEPT !.reverse_properties[reverse_prop] = @ \o reverse_values]
    ELSE [self EXCEPT !.reverse_properties =
                          with_entry(@, reverse_prop, reverse_values)]

-----------------------------------------------------------------------------
(* The top level of an expansion (expansion/mod.rs, object/mod.rs).        *)

\* Object::into_unnamed_graph of an indexed object: Ok(graph) for a node
\* that is an unnamed graph, Err(the object, with its index) otherwise.
object_into_unnamed_graph(self) ==
    IF self.inner.kind = "Node"
    THEN LET into == node_into_unnamed_graph(self.inner.node)
         IN IF into.ok THEN [ok |-> TRUE, graph |-> into.graph]
            ELSE [ok |-> FALSE,
                  object |-> Indexed(NodeObject(into.node), self.index)]
    ELSE [ok |-> FALSE, object |-> Indexed(self.inner, self.index)]

\* filter_top_level_item: dangling values are removed.
filter_top_level_item(item) == item.inner.kind # "Value"

\* expand, from the outcome of expand_element: the set of a lone unnamed
\* graph, the lone item if the filter keeps it, or the items the filter
\* keeps.
expand(expanded) ==
    IF ~expanded.ok THEN Err(expanded.error)
    ELSE IF Len(expanded.set) = 1
    THEN LET into == object_into_unnamed_graph(expanded.set[1])
         IN IF into.ok THEN [k |-> "set", items |-> into.graph]
            ELSE IF filter_top_level_item(into.object)
            THEN [k |-> "set", items |-> <<into.object>>]
            ELSE [k |-> "set", items |-> <<>>]
    ELSE [k |-> "set",
          items |-> SelectSeq(expanded.set, filter_top_level_item)]

-----------------------------------------------------------------------------
(* Comparison of JSON-LD documents (json/build.rs).                        *)

RECURSIVE json_ld_eq(_, _)
RECURSIVE pair_items(_, _, _)

\* The loop 'a_items: every item of a takes the first item of b that is not
\* selected yet and that compares equal to it; the loop fails at the first
\* item of a that finds none.
pair_items(a_items, b_items, selected) ==
    IF a_items = <<>> THEN TRUE
    ELSE LET found == {i \in 1..Len(b_items) :
                          ~selected[i] /\ json_ld_eq(b_items[i], Head(a_items))}
         IN IF found = {} THEN FALSE
            ELSE LET i == CHOOSE x \in found : \A y \in found : x <= y
                 IN pair_items(Tail(a_items), b_items,
                               [selected EXCEPT ![i] = TRUE])

\* The values of @list compared as any other value.
list_eq_unordered(value_a, value_b) == json_ld_eq(value_a, value_b)

\* The values under the key @list: two arrays of the same length are
\* compared item by item, in order.
list_eq(value_a, value_b) ==
    IF value_a.k = "arr" /\ value_b.k = "arr"
       /\ Len(value_a.items) = Len(value_b.items)
    THEN \A i \in 1..Len(value_a.items) :
            json_ld_eq(value_a.items[i], value_b.items[i])
    ELSE json_ld_eq(value_a, value_b)

\* json_ld_eq(a, b)
json_ld_eq(a, b) ==
    IF a.k = "arr" /\ b.k = "arr" /\ Len(a.items) = Len(b.items)
    THEN pair_items(a.items, b.items, [i \in 1..Len(a.items) |-> FALSE])
    ELSE IF a.k = "obj" /\ b.k = "obj"
            /\ Cardinality(DOMAIN a.m) = Cardinality(DOMAIN b.m)
    THEN \A key \in DOMAIN a.m :
            /\ key \in DOMAIN b.m
            /\ IF key = "@list" THEN list_eq(a.m[key], b.m[key])
               ELSE json_ld_eq(a.m[key], b.m[key])
    ELSE IF a.k = "null" /\ b.k = "null" THEN TRUE
    ELSE IF a.k = "num" /\ b.k = "num" THEN a.n = b.n
    ELSE IF a.k = "str" /\ b.k = "str" THEN a.s = b.s
    ELSE FALSE

-----------------------------------------------------------------------------
(* The arguments Init draws.                                               *)

\* A term defined as an alias of a keyword.
Alias(keyword) == [DefaultDefinition EXCEPT !.value = keyword]

NoTerms == [x \in {} |-> DefaultDefinition]

\* One alias per keyword the compactors emit, and a second, longer alias of
\* @value.
Aliases ==
    [t \in {"val", "value", "type", "lang", "dir", "idx", "list", "graph",
            "json", "id"} |->
        Alias(CASE t \in {"val", "value"} -> "@value"
                [] t = "type"  -> "@type"
                [] t = "lang"  -> "@language"
                [] t = "dir"   -> "@direction"
                [] t = "idx"   -> "@index"
                [] t = "list"  -> "@list"
                [] t = "graph" -> "@graph"
                [] t = "json"  -> "@json"
                [] t = "id"    -> "@id")]

\* The definition of a property term.
Property(container, typ, language, direction, context) ==
    [DefaultDefinition EXCEPT !.value = IriP, !.container = container,
                              !.typ = typ, !.language = language,
                              !.direction = direction, !.context = context]

PlainProperty == Property({}, None, Unset, Unset, <<>>)

\* Nested local contexts of a definition: one that redefines p and the
\* keyword aliases and sets the default language, one that redefines p as a
\* plain term, one that fails to process.
LcTyped ==
    [terms |-> Aliases @@ ("p" :> Property({"@index"}, IriT1, Unset, Unset, <<>>)),
     language |-> "en", valid |-> TRUE]
LcPlain ==
    [terms |-> ("p" :> PlainProperty), language |-> Unset, valid |-> TRUE]
LcInvalid ==
    [terms |-> NoTerms, language |-> Unset, valid |-> FALSE]

\* A local context whose definition of p has a local context in turn.
LcNested ==
    [terms |-> ("p" :> Property({}, None, Unset, Unset, <<LcTyped>>)),
     language |-> Unset, valid |-> TRUE]

\* The definitions of p under which a value is compacted.  A definition with
\* a type mapping has no language or direction mapping.
ValueProperties ==
    {Property(c, t, l, d, <<>>) :
        c \in {{}, {"@index"}},
        t \in {None},
        l \in {Unset, ExplicitNull, "en"},
        d \in {Unset, ExplicitNull, "ltr"}}
    \cup {Property(c, t, Unset, Unset, <<>>) :
            c \in {{}, {"@index"}}, t \in {IriT1, "@json", "@none"}}
    \cup {Property(c, None, Unset, Unset, <<lc>>) :
            c \in {{}, {"@index"}}, lc \in {LcTyped, LcPlain, LcInvalid}}

ValueContexts ==
    {Context(a @@ ("p" :> def), l, d, <<>>) :
        a \in {NoTerms, Aliases}, def \in ValueProperties,
        l \in {None, "fr"}, d \in {None, "rtl"}}

\* Contexts that do not define p.
BareContexts ==
    {Context(a, l, d, <<>>) :
        a \in {NoTerms, Aliases}, l \in {None, "fr"}, d \in {None, "rtl"}}

\* A language-tagged string has a language or a direction.
Values ==
    {Literal(lit, ty) : lit \in {Null, Bool(TRUE), Num(1), Str("a")},
                        ty \in {None, IriT1, IriT2}}
    \cup ({LangString("a", l, d) :
             l \in {None, "en", "fr"}, d \in {None, "ltr", "rtl"}}
          \ {LangString("a", None, None)})
    \cup {Json(j) : j \in {Null, Num(1), Arr(<<Num(1)>>),
                           Obj("a" :> Str("x"))}}

Indexes == {None, "i"}

NoContext == Context(NoTerms, None, None, <<>>)

DefaultOptions == [compact_arrays |-> TRUE, ordered |-> FALSE]

AllOptions == {[compact_arrays |-> b, ordered |-> o] : b, o \in BOOLEAN}

\* The options of the calls below the document: ordered is read by
\* Document::compact_with's callees only through the options it copies.
UnorderedOptions == {o \in AllOptions : ~o.ordered}

\* Sequences of at most n items of S.
RECURSIVE SeqsUpTo(_, _)
SeqsUpTo(S, n) ==
    IF n = 0 THEN {<<>>}
    ELSE LET shorter == SeqsUpTo(S, n - 1)
         IN shorter \cup {Append(q, x) : q \in shorter, x \in S}

\* The iteration orders of the sets of at most n items of S.
Distinct(S, n) ==
    {q \in SeqsUpTo(S, n) : \A i, j \in 1..Len(q) : i # j => q[i] # q[j]}

\* Items of a list object.
ListItems ==
    {Indexed(ValueObject(Literal(Num(1), None)), None),
     Indexed(ValueObject(Literal(Str("a"), None)), "i"),
     Indexed(ValueObject(Literal(Null, None)), None)}

Lists == {ListObject(l) : l \in SeqsUpTo(ListItems, MaxItems)}

ListProperty(container, context) ==
    Property(container, None, Unset, Unset, context)

\* A context whose definition of p has a list container and a local context
\* that redefines p as a plain term.
ListRedefined ==
    Context("p" :> ListProperty({"@list"}, <<LcPlain>>), None, None, <<>>)

\* A term-scoped context that gives p a list container, over a previous
\* context where p is a plain term.
ListTermScoped ==
    Context("p" :> ListProperty({"@list"}, <<>>), None, None,
            <<Context("p" :> PlainProperty, None, None, <<>>)>>)

\* A term-scoped context that defines the keyword aliases, over a previous
\* context that does not.
ListScopedAliases ==
    Context(Aliases @@ ("p" :> PlainProperty), None, None,
            <<Context("p" :> PlainProperty, None, None, <<>>)>>)

\* The type-scoped contexts a list is compacted under.
ListTypeScoped ==
    {Context("p" :> ListProperty(c, <<>>), None, None, <<>>) :
        c \in {{}, {"@index"}, {"@list"}, {"@list", "@index"}}}
    \cup {ListRedefined, ListTermScoped,
          Context("p" :> ListProperty({}, <<LcPlain>>), None, None, <<>>),
          Context("p" :> ListProperty({}, <<LcInvalid>>), None, None, <<>>),
          NoContext}

\* The active contexts a list is compacted under; the last one is a
\* term-scoped context whose previous context gives p a list container.
ListActive ==
    {Context(a @@ ("p" :> ListProperty(c, <<>>)), None, None, <<>>) :
        a \in {NoTerms, Aliases}, c \in {{}, {"@list"}, {"@index"}}}
    \cup {Context("p" :> ListProperty({"@set"}, <<>>), None, None, <<>>),
          NoContext, ListRedefined, ListTermScoped, ListScopedAliases,
          Context("p" :> ListProperty({"@index"}, <<>>), None, None,
                  <<Context("p" :> ListProperty({"@list"}, <<>>), None, None,
                            <<>>)>>)}

\* Items of a set of indexed objects.
CollectionItems ==
    {Indexed(ValueObject(Literal(Num(1), None)), None),
     Indexed(ValueObject(Literal(Str("a"), None)), "i"),
     Indexed(ValueObject(Literal(Null, None)), None),
     Indexed(NodeObject(Node("http://ex/u1")), None),
     Indexed(ListObject(<<Indexed(ValueObject(Literal(Num(1), None)), None)>>),
             None)}

CollectionContexts ==
    {Context("p" :> ListProperty(c, <<>>), None, None, <<>>) :
        c \in {{}, {"@list"}, {"@set"}, {"@index"}, {"@set", "@index"}}}
    \cup {Context("p" :> ListProperty({}, <<LcInvalid>>), None, None, <<>>),
          Context("p" :> ListProperty({}, <<LcNested>>), None, None, <<>>)}

CollectionProperties == {None, "@graph", "@set", "p", "q"}

\* A type-scoped context whose definition of p has a local context that
\* fails to process: nodes and lists fail under it, values do not read it.
CollectionFailing ==
    Context("p" :> ListProperty({}, <<LcInvalid>>), None, None, <<>>)

\* Top-level items of an expanded document: nodes, lists, and a value
\* such as the content of an unnamed graph may hold.
DocumentItems ==
    {Indexed(NodeObject(Node("http://ex/u1")), None),
     Indexed(NodeObject(Node("http://ex/u2")), "i"),
     Indexed(ListObject(<<Indexed(ValueObject(Literal(Num(1), None)), None)>>),
             None),
     Indexed(ValueObject(Literal(Num(1), None)), None)}

\* The outcomes of expand_with.
Expansions ==
    {[ok |-> TRUE, set |-> q] : q \in Distinct(DocumentItems, MaxItems)}
    \cup {[ok |-> FALSE, error |-> "InvalidLocalContext"]}

DocumentContexts ==
    {Context(NoTerms, None, None, <<>>),
     Context("p" :> PlainProperty, None, None, <<>>),
     Context(Aliases, None, None, <<>>),
     Context(Aliases @@ ("ctx" :> Alias("@context")), None, None, <<>>)}

\* context.as_json()
JsonContexts ==
    {Null, Obj(EmptyObject), Arr(<<>>), Str("http://ex/context"),
     Obj("p" :> Str(IriP))}

Pending == [k |-> "pending"]

-----------------------------------------------------------------------------
(* The calls.                                                              *)

InitValue ==
    /\ entry = "value"
    /\ element \in Values
    /\ index \in Indexes
    /\ \/ active_context \in ValueContexts /\ active_property = "p"
       \/ active_context \in BareContexts /\ active_property \in {None, "p"}
    /\ type_scoped_context = NoContext
    /\ options = DefaultOptions
    /\ json_context = Null

InitObject ==
    /\ entry = "object"
    /\ element \in Lists
    /\ index \in Indexes
    /\ active_context \in ListActive
    /\ type_scoped_context \in ListTypeScoped
    /\ active_property \in {None, "p"}
    /\ options \in UnorderedOptions
    /\ json_context = Null

InitCollection ==
    /\ entry = "collection"
    /\ element \in Distinct(CollectionItems, MaxItems)
    /\ index = None
    /\ active_context \in CollectionContexts
    /\ type_scoped_context \in {active_context, CollectionFailing}
    /\ active_property \in CollectionProperties
    /\ options \in UnorderedOptions
    /\ json_context = Null

InitDocument ==
    /\ entry = "document"
    /\ element \in Expansions
    /\ index = None
    /\ active_context \in DocumentContexts
    /\ type_scoped_context = active_context
    /\ active_property = None
    /\ options \in AllOptions
    /\ json_context \in JsonContexts

\* The object that add_value is called on: empty at first.
InitAddValue ==
    /\ entry = "add_value"
    /\ element = Obj(EmptyObject)
    /\ index = None
    /\ active_context = NoContext
    /\ type_scoped_context = NoContext
    /\ active_property = None
    /\ options = DefaultOptions
    /\ json_context = Null

\* A local context whose definition of p has a local context that fails
\* to process.
LcFailing ==
    [terms |-> ("p" :> Property({}, None, Unset, Unset, <<LcInvalid>>)),
     language |-> Unset, valid |-> TRUE]

\* Items of a collection whose compaction is followed step by step: a
\* value, a node and a list of two values.
StepItems ==
    {Indexed(ValueObject(Literal(Num(1), None)), None),
     Indexed(NodeObject(Node("http://ex/u1")), None),
     Indexed(ListObject(<<Indexed(ValueObject(Literal(Num(1), None)), None),
                          Indexed(ValueObject(Literal(Str("a"), None)), "i")>>),
             None)}

\* Contexts whose definition of p has no local context, one that processes,
\* one that processes to a definition with a further local context, and
\* ones that fail at the first or at the further local context.
StepContexts ==
    {Context("p" :> ListProperty(c, lc), None, None, <<>>) :
        c \in {{}, {"@list"}},
        lc \in {<<>>, <<LcPlain>>, <<LcNested>>, <<LcFailing>>,
                <<LcInvalid>>}}

InitSteps ==
    /\ entry = "steps"
    /\ element \in SeqsUpTo(StepItems, MaxItems)
    /\ index = None
    /\ active_context \in StepContexts
    /\ type_scoped_context \in {active_context, CollectionFailing}
    /\ active_property = "p"
    /\ options = DefaultOptions
    /\ json_context = Null
    /\ frames = <<Frame(element, active_context, type_scoped_context,
                        active_property)>>

\* The arguments an entry point does not take.
NoArguments ==
    /\ index = None
    /\ active_context = NoContext
    /\ type_scoped_context = NoContext
    /\ active_property = None
    /\ options = DefaultOptions
    /\ json_context = Null
    /\ frames = <<>>

\* Term definitions: the default one, one per field that differs from the
\* default in that field alone, some that differ in two fields, and
\* protected copies.
Definitions ==
    LET d == DefaultDefinition
        plain == {d,
                  [d EXCEPT !.value = IriP],
                  [d EXCEPT !.prefix = TRUE],
                  [d EXCEPT !.reverse_property = TRUE],
                  [d EXCEPT !.base_url = "http://ex/"],
                  [d EXCEPT !.typ = IriT1],
                  [d EXCEPT !.language = ExplicitNull],
                  [d EXCEPT !.language = "en"],
                  [d EXCEPT !.direction = "ltr"],
                  [d EXCEPT !.context = <<LcPlain>>],
                  [d EXCEPT !.nest = "@nest"],
                  [d EXCEPT !.index = IriP],
                  [d EXCEPT !.container = {"@set"}],
                  [d EXCEPT !.value = IriP, !.typ = IriT1]}
    IN plain \cup {[d EXCEPT !.protected = TRUE],
                   [d EXCEPT !.protected = TRUE, !.typ = IriT1],
                   [d EXCEPT !.protected = TRUE, !.value = IriP,
                             !.typ = IriT1]}

\* Three definitions to compare with one another.
InitDefinitions ==
    /\ entry = "definition_eq"
    /\ element \in Definitions \X Definitions \X Definitions
    /\ NoArguments

\* A value object and a node object, as items of graphs and properties.
ValueItem == Indexed(ValueObject(Literal(Num(1), None)), None)
NodeItem == Indexed(NodeObject(Node("http://ex/u1")), None)

\* Nodes: with or without an identifier, types, a graph (empty or not), an
\* included set, a property, a reverse property.
Nodes ==
    {NodeOf(id, types, graph, included, properties, reverse_properties) :
        id \in {None, "http://ex/g"},
        types \in {<<>>, <<IriT1>>},
        graph \in {<<>>, << <<>> >>, << <<NodeItem>> >>},
        included \in {<<>>, << <<>> >>},
        properties \in {NoProperties, IriP :> <<ValueItem>>},
        reverse_properties \in {NoProperties, IriP :> <<NodeItem>>}}

InitNode ==
    /\ entry = "node"
    /\ element \in Nodes
    /\ NoArguments

\* A graph object with the given identifier and content.
GraphNode(id, content) ==
    NodeOf(id, <<>>, <<content>>, <<>>, NoProperties, NoProperties)

\* Items of the set expand_element returns: a value, a list, a node, and
\* graphs, unnamed or named, that hold nothing, a node, or a value and a
\* node.
ExpandedItems ==
    {ValueItem,
     Indexed(ValueObject(Literal(Str("a"), None)), "i"),
     Indexed(ListObject(<<ValueItem>>), None),
     Indexed(NodeObject(node_with_id("http://ex/u1")), None),
     Indexed(NodeObject(GraphNode("http://ex/g", <<ValueItem>>)), None)}
    \cup {Indexed(NodeObject(GraphNode(None, content)), idx) :
            content \in {<<>>, <<NodeItem>>, <<ValueItem, NodeItem>>},
            idx \in {None, "i"}}

\* The outcomes of expand_element.
ElementExpansions ==
    {[ok |-> TRUE, set |-> q] : q \in Distinct(ExpandedItems, MaxItems)}
    \cup {[ok |-> FALSE, error |-> "InvalidLocalContext"]}

InitExpand ==
    /\ entry = "expand"
    /\ element \in ElementExpansions
    /\ NoArguments

\* JSON values to compare: scalars of every kind, arrays of scalars with
\* and without repeated items, arrays of arrays, and objects with and
\* without an @list entry.
JsonScalars == {Null, Bool(TRUE), Num(1), Num(2), Str("a")}

JsonArrays ==
    {Arr(q) : q \in SeqsUpTo({Num(1), Num(2), Str("a")}, MaxItems)}
    \cup {Arr(<<Bool(TRUE)>>),
          Arr(<<Arr(<<Num(1), Num(2)>>), Num(1)>>),
          Arr(<<Num(1), Arr(<<Num(2), Num(1)>>)>>)}

JsonObjects ==
    {Obj(key :> value) :
        key \in {"@list", "p"},
        value \in {Num(1), Arr(<<Num(1)>>), Arr(<<Num(1), Num(2)>>),
                   Arr(<<Num(2), Num(1)>>),
                   Arr(<<Arr(<<Num(1), Num(2)>>), Num(1)>>),
                   Arr(<<Arr(<<Num(2), Num(1)>>), Num(1)>>)}}
    \cup {Obj(EmptyObject),
          Obj(("@list" :> Arr(<<Num(1), Num(2)>>)) @@ ("p" :> Num(1))),
          Obj(("@list" :> Arr(<<Num(1), Num(2)>>)) @@ ("p" :> Num(2))),
          Obj("p" :> Obj("@list" :> Arr(<<Num(1), Num(2)>>))),
          Obj("p" :> Obj("@list" :> Arr(<<Num(2), Num(1)>>)))}

JsonValues == JsonScalars \cup JsonArrays \cup JsonObjects

\* Two JSON values to compare.
InitJson ==
    /\ entry = "json_ld_eq"
    /\ element \in JsonValues \X JsonValues
    /\ NoArguments

\* The properties, objects and nodes of the insertions.
InsertProperties == {IriP, "http://ex/q"}

InsertObjects == {ValueItem, NodeItem}

InsertNodes ==
    {Indexed(node_with_id("http://ex/u1"), None),
     Indexed(node_with_id("http://ex/u2"), None)}

\* The node the insertions are made into: a new node, a node with an
\* identifier, a graph.
InitInsert ==
    /\ entry = "node_insert"
    /\ element \in {node_new, node_with_id("http://ex/u1"),
                    GraphNode(None, <<NodeItem>>)}
    /\ NoArguments

Init ==
    /\ pc = "call"
    /\ result = Pending
    /\ visited = 0
    /\ call = <<>>
    /\ in_flight = <<>>
    /\ loads = <<>>
    /\ \/ (InitValue /\ frames = <<>>)
       \/ (InitObject /\ frames = <<>>)
       \/ (InitCollection /\ frames = <<>>)
       \/ (InitDocument /\ frames = <<>>)
       \/ (InitAddValue /\ frames = <<>>)
       \/ InitSteps
       \/ InitDefinitions
       \/ InitNode
       \/ InitExpand
       \/ InitJson
       \/ InitInsert

Return(value, passes) ==
    /\ result' = value
    /\ visited' = passes
    /\ pc' = "done"
    /\ UNCHANGED <<entry, element, index, active_context, type_scoped_context,
                   active_property, options, json_context, call, frames,
                   in_flight, loads>>

\* compact_indexed_value_with(value, index, active_context, active_property, ..)
CompactValue ==
    /\ pc = "call" /\ entry = "value"
    /\ Return(compact_indexed_value_with(element, index, active_context,
                                         active_property), 0)

\* object.compact_indexed_with(index, active_context, type_scoped_context,
\* active_property, ..)
CompactObject ==
    /\ pc = "call" /\ entry = "object"
    /\ Return(compact_indexed_with(element, index, active_context,
                                   type_scoped_context, active_property,
                                   options), 0)

\* Compact::compact_with of a HashSet of indexed objects, iterated in the
\* order of element.
CompactCollection ==
    /\ pc = "call" /\ entry = "collection"
    /\ Return(compact_collection_with(element, active_context,
                                      type_scoped_context, active_property,
                                      options),
              items_compacted(element, active_context, type_scoped_context,
                              active_property, options))

\* Document::compact_with(base_url, context, ..), element being the outcome
\* of expand_with.
CompactDocument ==
    /\ pc = "call" /\ entry = "document"
    /\ Return(document_compact_with(element, active_context, json_context,
                                    options),
              IF ~element.ok THEN 0
              ELSE IF Len(element.set) = 1 /\ options.compact_arrays THEN 1
              ELSE items_compacted(element.set, active_context,
                                   active_context, None, options))

\* The keys and values add_value is called with.
AddKeys == {"k", "j"}

AddValues ==
    {Num(1), Str("a"), Arr(<<>>), Arr(<<Num(1)>>), Arr(<<Num(1), Str("a")>>),
     Arr(<<Arr(<<Str("a")>>)>>), Arr(<<Arr(<<>>)>>),
     Obj("a" :> Str("x"))}

\* The values added under a key: every value under the first key, a number
\* under the second.
AddValuesUnder(key) == IF key = "k" THEN AddValues ELSE {Num(1)}

\* add_value(&mut map, key, value, as_array): the object is changed in
\* place; the calls go on as long as the array under the key is short.
AddValue ==
    /\ entry = "add_value"
    /\ \E key \in AddKeys, as_array \in BOOLEAN :
       \E value \in AddValuesUnder(key) :
          LET after == add_value(element.m, key, value, as_array)
          IN /\ (key \in DOMAIN after /\ after[key].k = "arr") =>
                   Len(after[key].items) <= MaxArray
             /\ element' = Obj(after)
             /\ call' = <<[map |-> element.m, key |-> key, value |-> value,
                           as_array |-> as_array]>>
    /\ pc' = "done"
    /\ UNCHANGED <<entry, index, active_context, type_scoped_context,
                   active_property, options, json_context, result, visited,
                   frames, in_flight, loads>>

\* What a step of the loops leaves alone.
StepFrame ==
    UNCHANGED <<entry, element, index, active_context, type_scoped_context,
                active_property, options, json_context, call>>

\* The first item of the running loop starts with a call of process_with:
\* the call is issued and the loop awaits it.
StepIssue ==
    /\ pc = "call" /\ entry = "steps" /\ frames # <<>>
    /\ LET top == frames[Len(frames)]
       IN /\ ~suspended(top)
          /\ top.items # <<>>
          /\ LET load == pending_load(Head(top.items), top.ctx, top.ts,
                                      top.property)
             IN /\ load # <<>>
                /\ in_flight' = Append(in_flight, load[1])
                /\ loads' = Append(loads, load[1])
          /\ frames' = [frames EXCEPT ![Len(frames)].phase = "awaiting"]
          /\ visited' = IF Len(frames) = 1 THEN visited + 1 ELSE visited
    /\ UNCHANGED <<pc, result>>
    /\ StepFrame

\* The awaited call completes: its error leaves every loop by `?`, its
\* context is the one the item is compacted in.
StepResume ==
    /\ pc = "call" /\ entry = "steps" /\ frames # <<>>
    /\ suspended(frames[Len(frames)])
    /\ in_flight # <<>>
    /\ LET outcome == process_with(Head(in_flight).local,
                                   Head(in_flight).against)
       IN IF outcome.ok
          THEN /\ frames' = advanced(frames, outcome.context)
               /\ UNCHANGED <<pc, result>>
          ELSE /\ frames' = <<>>
               /\ result' = Err(outcome.error)
               /\ pc' = "done"
    /\ in_flight' = Tail(in_flight)
    /\ UNCHANGED <<loads, visited>>
    /\ StepFrame

\* The first item of the running loop enters no local context.
StepPlain ==
    /\ pc = "call" /\ entry = "steps" /\ frames # <<>>
    /\ LET top == frames[Len(frames)]
       IN /\ ~suspended(top)
          /\ top.items # <<>>
          /\ pending_load(Head(top.items), top.ctx, top.ts, top.property) = <<>>
          /\ frames' = advanced(frames,
                                IF Head(top.items).inner.kind = "List"
                                THEN list_active_context(top.ctx, top.ts,
                                                         top.property).context
                                ELSE top.ctx)
          /\ visited' = IF Len(frames) = 1 THEN visited + 1 ELSE visited
    /\ UNCHANGED <<pc, result, in_flight, loads>>
    /\ StepFrame

\* The running loop is over: it returns to the loop that awaited it, the
\* outermost one to the caller.
StepReturn ==
    /\ pc = "call" /\ entry = "steps" /\ frames # <<>>
    /\ LET top == frames[Len(frames)]
       IN /\ ~suspended(top)
          /\ top.items = <<>>
    /\ frames' = SubSeq(frames, 1, Len(frames) - 1)
    /\ IF Len(frames) = 1
       THEN /\ result' = compact_collection_with(element, active_context,
                                                 type_scoped_context,
                                                 active_property, options)
            /\ pc' = "done"
       ELSE UNCHANGED <<pc, result>>
    /\ UNCHANGED <<in_flight, loads, visited>>
    /\ StepFrame

\* a == b, b == a, b == c, a == c and a == a of three term definitions.
CompareDefinitions ==
    /\ pc = "call" /\ entry = "definition_eq"
    /\ Return([k |-> "eq",
               ab |-> definition_eq(element[1], element[2]),
               ba |-> definition_eq(element[2], element[1]),
               bc |-> definition_eq(element[2], element[3]),
               ac |-> definition_eq(element[1], element[3]),
               aa |-> definition_eq(element[1], element[1])], 0)

\* The graph predicates of a node, then node.into_unnamed_graph().
IntoUnnamedGraph ==
    /\ pc = "call" /\ entry = "node"
    /\ Return([k |-> "node",
               is_graph |-> is_graph(element),
               is_simple_graph |-> is_simple_graph(element),
               is_unnamed_graph |-> is_unnamed_graph(element),
               into |-> node_into_unnamed_graph(element)], 0)

\* expand(active_context, element, ..), element here being the outcome
\* of expand_element.
Expand ==
    /\ pc = "call" /\ entry = "expand"
    /\ Return(expand(element), 0)

\* json_ld_eq(a, b), json_ld_eq(b, a) and json_ld_eq(a, a)
CompareJson ==
    /\ pc = "call" /\ entry = "json_ld_eq"
    /\ Return([k |-> "eq",
               ab |-> json_ld_eq(element[1], element[2]),
               ba |-> json_ld_eq(element[2], element[1]),
               aa |-> json_ld_eq(element[1], element[1])], 0)

\* A call on the node: element is the node after the call, call the
\* operation and its arguments, visited the number of calls.
Call(after, op, prop, values) ==
    /\ entry = "node_insert"
    /\ visited < MaxCalls
    /\ element' = after
    /\ call' = <<[op |-> op, prop |-> prop, values |-> values]>>
    /\ visited' = visited + 1
    /\ pc' = "done"
    /\ UNCHANGED <<entry, index, active_context, type_scoped_context,
                   active_property, options, json_context, result, frames,
                   in_flight, loads>>

\* node.insert(prop, value)
NodeInsert ==
    \E prop \in InsertProperties, value \in InsertObjects :
        Call(node_insert(element, prop, value), "insert", prop, <<value>>)

\* node.insert_all(prop, values)
NodeInsertAll ==
    \E prop \in InsertProperties,
       values \in {<<>>, <<NodeItem, ValueItem>>} :
        Call(node_insert_all(element, prop, values), "insert_all", prop,
                  values)

\* node.insert_reverse(reverse_prop, reverse_value)
NodeInsertReverse ==
    \E value \in InsertNodes :
        Call(node_insert_reverse(element, IriP, value), "insert_reverse",
                  IriP, <<value>>)

\* node.insert_all_reverse(reverse_prop, reverse_values)
NodeInsertAllReverse ==
    \E values \in {<<>>} \cup {<<x, y>> : x, y \in InsertNodes} :
        Call(node_insert_all_reverse(element, IriP, values),
                  "insert_all_reverse", IriP, values)

Next ==
    \/ CompactValue
    \/ CompactObject
    \/ CompactCollection
    \/ CompactDocument
    \/ AddValue
    \/ StepIssue
    \/ StepResume
    \/ StepPlain
    \/ StepReturn
    \/ CompareDefinitions
    \/ IntoUnnamedGraph
    \/ Expand
    \/ CompareJson
    \/ NodeInsert
    \/ NodeInsertAll
    \/ NodeInsertReverse
    \/ NodeInsertAllReverse

Spec == Init /\ [][Next]_vars

-----------------------------------------------------------------------------
(* The value compactor: what the claims speak of.                          *)

\* The value compactor returned a JSON value.
ValueReturned == pc = "done" /\ entry = "value" /\ result.k # "err"

\* The context in effect after the local context of the property, if any,
\* was entered.
Effective == value_active_context(active_context, active_property).context

HasDefinition ==
    active_property # None /\ active_property \in DOMAIN Effective.terms

PropertyType ==
    IF HasDefinition THEN Effective.terms[active_property].typ ELSE None

PropertyContainer ==
    IF HasDefinition THEN Effective.terms[active_property].container ELSE {}

PropertyLanguage ==
    IF HasDefinition /\ Effective.terms[active_property].language # Unset
    THEN IF Effective.terms[active_property].language = ExplicitNull
         THEN None ELSE Effective.terms[active_property].language
    ELSE Effective.default_language

PropertyDirection ==
    IF HasDefinition /\ Effective.terms[active_property].direction # Unset
    THEN IF Effective.terms[active_property].direction = ExplicitNull
         THEN None ELSE Effective.terms[active_property].direction
    ELSE Effective.default_base_direction

RemoveIndex == "@index" \in PropertyContainer \/ index = None

\* The key a keyword is emitted under.
Key(keyword) == compact_iri(Effective, keyword)

HasEntry(key, value) ==
    result.k = "obj" /\ key \in DOMAIN result.m /\ result.m[key] = value

\* C2: a literal is returned as its raw scalar exactly when its type equals
\* the type mapping of the property and remove_index holds, except for an
\* untyped string under a language or direction, which yields {@value: s}
\* and nothing else; in every other case the result is an object holding
\* @value and, exactly when the literal is typed, @type with the compacted
\* type.
C2_Literal ==
    (ValueReturned /\ element.variant = "Literal") =>
        LET matches == element.ty = PropertyType /\ RemoveIndex
            forced == /\ matches
                      /\ element.lit.k = "str"
                      /\ element.ty = None
                      /\ (PropertyLanguage # None \/ PropertyDirection # None)
        IN IF forced
           THEN result = Obj(Key("@value") :> element.lit)
           ELSE IF matches
           THEN result = element.lit
           ELSE /\ HasEntry(Key("@value"), element.lit)
                /\ element.ty # None =>
                      HasEntry(Key("@type"),
                               Str(compact_iri(Effective, element.ty)))
                /\ element.ty = None => Key("@type") \notin DOMAIN result.m

\* An untyped string whose type matches was compacted under a language.
C2_Witness ==
    /\ ValueReturned /\ element.variant = "Literal"
    /\ element.lit.k = "str" /\ element.ty = None /\ PropertyType = None
    /\ RemoveIndex /\ PropertyLanguage # None
    /\ result.k = "obj"

\* C3: a language-tagged string is returned as the bare string if and only
\* if remove_index holds and its language and its direction are each absent
\* or equal to the effective one of the property; otherwise the result is an
\* object with @value, with @language exactly when the string has a
\* language and @direction exactly when it has a direction.
C3_LangString ==
    (ValueReturned /\ element.variant = "LangString") =>
        LET bare == /\ RemoveIndex
                    /\ element.language \in {None, PropertyLanguage}
                    /\ element.direction \in {None, PropertyDirection}
        IN IF bare
           THEN result = Str(element.str)
           ELSE /\ HasEntry(Key("@value"), Str(element.str))
                /\ IF element.language # None
                   THEN HasEntry(Key("@language"), Str(element.language))
                   ELSE Key("@language") \notin DOMAIN result.m
                /\ IF element.direction # None
                   THEN HasEntry(Key("@direction"), Str(element.direction))
                   ELSE Key("@direction") \notin DOMAIN result.m

\* A string with a direction and no language came back bare under a
\* property that has a language.
C3_Witness ==
    /\ ValueReturned /\ element.variant = "LangString"
    /\ element.language = None /\ element.direction # None
    /\ PropertyLanguage # None
    /\ result = Str(element.str)

\* C4: a JSON literal is returned verbatim if and only if the type mapping
\* of the property is @json and remove_index holds; otherwise the result is
\* an object whose @value is the payload and whose @type is the compacted
\* @json.
C4_Json ==
    (ValueReturned /\ element.variant = "Json") =>
        IF PropertyType = "@json" /\ RemoveIndex
        THEN result = element.json
        ELSE /\ HasEntry(Key("@value"), element.json)
             /\ HasEntry(Key("@type"), Str(Key("@json")))
             /\ result # element.json

\* An indexed JSON literal came back verbatim under an index container.
C4_Witness ==
    /\ ValueReturned /\ element.variant = "Json"
    /\ index # None /\ "@index" \in PropertyContainer
    /\ result = element.json /\ element.json.k = "obj"

\* The bare form of a value: what is returned when no object is built.
Bare(value) ==
    CASE value.variant = "Literal" -> value.lit
      [] value.variant = "LangString" -> Str(value.str)
      [] value.variant = "Json" -> value.json

\* C5: remove_index is true exactly when the container of the property
\* includes Index or the value has no index; the result holds an @index
\* entry, under the compacted @index key and with the index string, if and
\* only if the value has an index and the container does not include Index,
\* and then the result is an object, not the bare scalar or payload.
C5_Index ==
    ValueReturned =>
        LET kept == index # None /\ "@index" \notin PropertyContainer
        IN /\ remove_index_of(index, PropertyContainer) <=> ~kept
           /\ (result.k = "obj" /\ Key("@index") \in DOMAIN result.m) <=> kept
           /\ kept => /\ HasEntry(Key("@index"), Str(index))
                      /\ result # Bare(element)

\* A JSON literal under a @json property was compacted with an index that
\* is kept.
C5_Witness ==
    /\ ValueReturned /\ element.variant = "Json" /\ PropertyType = "@json"
    /\ index # None /\ "@index" \notin PropertyContainer
    /\ HasEntry(Key("@index"), Str(index))

ValueKeywords == {"@value", "@type", "@language", "@direction", "@index"}

\* The context maps a term to the keyword.
Aliased(keyword) ==
    \E t \in DOMAIN Effective.terms :
        Effective.terms[t].value = keyword /\ Effective.terms[t].container = {}

\* The result is an object the value compactor built.
Built == result.k = "obj" /\ result # Bare(element)

\* C6: every key of an object built by the value compactor is the compacted
\* form of one of @value, @type, @language, @direction, @index: a keyword,
\* or a term the context maps to that keyword; a keyword that has an alias
\* is never a key, and the @json type is emitted in its compacted form.
C6_Keys ==
    (ValueReturned /\ Built) =>
        /\ \A key \in DOMAIN result.m :
              /\ \E keyword \in ValueKeywords : key = Key(keyword)
              /\ \/ key \in ValueKeywords
                 \/ /\ key \in DOMAIN Effective.terms
                    /\ Effective.terms[key].value \in ValueKeywords
        /\ \A keyword \in ValueKeywords :
              Aliased(keyword) => keyword \notin DOMAIN result.m
        /\ element.variant = "Json" =>
              /\ result.m[Key("@type")] = Str(Key("@json"))
              /\ Aliased("@json") => result.m[Key("@type")] # Str("@json")

\* An indexed string with a language and a direction was compacted under a
\* context that aliases every keyword.
C6_Witness ==
    /\ ValueReturned /\ Built
    /\ element.variant = "LangString"
    /\ \A keyword \in ValueKeywords \ {"@type"} :
          Aliased(keyword) /\ Key(keyword) \in DOMAIN result.m

-----------------------------------------------------------------------------
(* The collection compactor.                                               *)

CollectionReturned == pc = "done" /\ entry = "collection" /\ result.k # "err"

\* The compacted elements of the set, in iteration order.
Compacted ==
    [i \in 1..Len(element) |->
        compact_with(element[i], active_context, type_scoped_context,
                     active_property, options)]

\* The compacted elements that are not null.
Survivors == SelectSeq(Compacted, LAMBDA j : j # Null)

\* The container of the active property in the context ctx.
ContainerIn(ctx) ==
    IF active_property # None /\ active_property \in DOMAIN ctx.terms
    THEN ctx.terms[active_property].container ELSE {}

\* C1: compacting a set of indexed objects returns the single surviving
\* element, unwrapped, if and only if exactly one compacted element is not
\* null, compact_arrays is set, the active property is neither @graph nor
\* @set and its container includes neither List nor Set; in every other
\* case the result is a JSON array.
C1_Unwrap ==
    CollectionReturned =>
        LET unwrap == /\ Len(Survivors) = 1
                      /\ options.compact_arrays
                      /\ active_property \notin {"@graph", "@set"}
                      /\ "@list" \notin ContainerIn(active_context)
                      /\ "@set" \notin ContainerIn(active_context)
        IN IF unwrap
           THEN result = Survivors[1]
           ELSE /\ result.k = "arr"
                /\ Len(Survivors) = 1 => result # Survivors[1]

\* A set of two elements, one of which compacts to null, was unwrapped to
\* the other under an index container.
C1_Witness ==
    /\ CollectionReturned /\ Len(element) = 2 /\ Len(Survivors) = 1
    /\ "@index" \in ContainerIn(active_context)
    /\ result = Survivors[1]

-----------------------------------------------------------------------------
(* The List arm of compact_indexed_with.                                   *)

ListReturned ==
    pc = "done" /\ entry = "object" /\ element.kind = "List"
    /\ result.k # "err"

\* The context the items of the list are compacted in.
ListContext ==
    list_active_context(active_context, type_scoped_context,
                        active_property).context

\* The compacted items of the list that are not null, in list order.
ListSurvivors ==
    SelectSeq([i \in 1..Len(element.list) |->
                  compact_with(element.list[i], ListContext, ListContext,
                               active_property, options)],
              LAMBDA j : j # Null)

\* C7: a list compacted under an active property whose definition in the
\* type-scoped context has a container with List yields a bare JSON array
\* of the compacted items in list order, with no @list wrapper, for every
\* list length and every value of compact_arrays.
C7_BareArray ==
    (ListReturned /\ "@list" \in ContainerIn(type_scoped_context)) =>
        result = Arr(ListSurvivors)

\* C8: a list compacted under an active property whose container does not
\* include List (or with no active property, or no definition of it) yields
\* an object whose only entries are the compacted @list key and, exactly
\* when the list has an index and the container of the active property does
\* not include Index, the compacted @index key with the index string.  The
\* List container is the one of the type-scoped context, the Index
\* container the one of the context the items are compacted in.
C8_ListObject ==
    (ListReturned /\ "@list" \notin ContainerIn(type_scoped_context)) =>
        LET kept == index # None /\ "@index" \notin ContainerIn(ListContext)
        IN /\ result.k = "obj"
           /\ DOMAIN result.m =
                 {compact_iri(ListContext, "@list")}
                 \cup (IF kept THEN {compact_iri(ListContext, "@index")}
                       ELSE {})
           /\ kept => result.m[compact_iri(ListContext, "@index")] = Str(index)

\* An indexed list of two items was compacted to an object with the aliases
\* of @list and @index.
C8_Witness ==
    /\ ListReturned /\ Len(element.list) = 2 /\ index # None
    /\ result.k = "obj" /\ DOMAIN result.m = {"list", "idx"}

\* An indexed list was compacted under an index container: @index is
\* dropped.
C8_WitnessDropped ==
    /\ ListReturned /\ index # None
    /\ "@index" \in ContainerIn(ListContext)
    /\ result.k = "obj" /\ DOMAIN result.m = {"@list"}

-----------------------------------------------------------------------------
(* Document::compact_with.                                                 *)

DocumentReturned ==
    pc = "done" /\ entry = "document" /\ result.k \notin {"err", "panic"}

\* The compacted top-level value.
TopLevel == document_compacted(element.set, active_context, options)

\* The terms the context maps to @graph.
GraphAliases ==
    {t \in DOMAIN active_context.terms :
        active_context.terms[t].value = "@graph"}

\* C9: Document::compact_with returns an object: a non-empty top-level
\* array is placed under the compacted @graph key (an alias of @graph if
\* the context defines one, "@graph" otherwise), an empty array gives the
\* empty object, and a top-level object is the root.
C9_Root ==
    DocumentReturned =>
        /\ result.k = "obj"
        /\ (TopLevel.k = "arr" /\ TopLevel.items # <<>>) =>
              \E g \in (IF GraphAliases = {} THEN {"@graph"} ELSE GraphAliases) :
                 /\ g \in DOMAIN result.m
                 /\ result.m[g] = TopLevel
                 /\ DOMAIN result.m \subseteq {g, "@context"}
        /\ (TopLevel.k = "arr" /\ TopLevel.items = <<>>) =>
              result = Obj(EmptyObject)
        /\ TopLevel.k = "obj" =>
              /\ DOMAIN TopLevel.m \subseteq DOMAIN result.m
              /\ DOMAIN result.m \subseteq (DOMAIN TopLevel.m) \cup {"@context"}
              /\ \A key \in DOMAIN TopLevel.m : result.m[key] = TopLevel.m[key]

\* A top-level array of two nodes was placed under the alias of @graph.
C9_Witness ==
    /\ DocumentReturned /\ TopLevel.k = "arr" /\ Len(TopLevel.items) = 2
    /\ "graph" \in DOMAIN result.m

NonEmptyContext == ~is_null(json_context) /\ ~is_empty(json_context)

HasContext ==
    /\ result.k = "obj" /\ "@context" \in DOMAIN result.m
    /\ result.m["@context"] = json_context

\* C10, as stated: the output has an @context entry, equal to the JSON form
\* of the context, if and only if the context is non-empty.
C10_ContextIffNonEmpty ==
    DocumentReturned => (HasContext <=> NonEmptyContext)

\* C10, amended: the output has an @context entry, equal to the JSON form
\* of the context, if and only if the context is non-empty and the
\* compacted document is not empty.
C10_ContextIffBothNonEmpty ==
    DocumentReturned =>
        /\ HasContext <=> (NonEmptyContext /\ ~is_empty(TopLevel))
        /\ ~HasContext => "@context" \notin DOMAIN result.m

\* A non-empty context was attached to a non-empty document.
C10_Witness ==
    /\ DocumentReturned /\ NonEmptyContext /\ ~is_empty(TopLevel)
    /\ HasContext

-----------------------------------------------------------------------------
(* The key of the context entry.                                           *)

RECURSIVE KeysWithin(_)

\* The keys of the objects that j is or holds, at any depth.
KeysWithin(j) ==
    CASE j.k = "obj" ->
           (DOMAIN j.m) \cup UNION {KeysWithin(j.m[key]) : key \in DOMAIN j.m}
      [] j.k = "arr" ->
           UNION {KeysWithin(j.items[i]) : i \in 1..Len(j.items)}
      [] OTHER -> {}

\* The keys of the objects below the root, the context value left aside.
NestedKeys ==
    UNION {KeysWithin(result.m[key]) : key \in (DOMAIN result.m) \ {"@context"}}

\* The compacted form of @context in the context of the document.
ContextKey == compact_iri(active_context, "@context")

ContextDue == NonEmptyContext /\ ~is_empty(TopLevel)

-----------------------------------------------------------------------------
(* Array folding at the top level.                                         *)

\* The expanded document holds exactly one object.
SingleObject == DocumentReturned /\ Len(element.set) = 1

\* The lone object of the expanded document, compacted by itself.
LoneItem ==
    compact_with(element.set[1], active_context, active_context, None, options)

C12_WitnessFolded ==
    /\ SingleObject /\ options.compact_arrays
    /\ element.set[1].inner.kind = "List"
    /\ TopLevel.k = "obj" /\ result.k = "obj"

-----------------------------------------------------------------------------
(* Determinism under the ordered option.                                   *)

\* The iteration orders of the set that q enumerates: a HashSet built anew
\* by each expansion iterates in an order of its own.
IterationOrders(q) ==
    {o \in Distinct(DocumentItems, MaxItems) :
        /\ Len(o) = Len(q)
        /\ {o[i] : i \in 1..Len(o)} = {q[i] : i \in 1..Len(q)}}

\* C13: with ordered set, every compaction of the same expanded document
\* under the same context and options returns the same JSON, whatever the
\* order in which the set of expanded objects is iterated.
C13_OrderedDeterministic ==
    (DocumentReturned /\ options.ordered) =>
        \A o \in IterationOrders(element.set) :
            document_compact_with([ok |-> TRUE, set |-> o], active_context,
                                  json_context, options) = result

-----------------------------------------------------------------------------
(* Propagation of errors.                                                  *)

\* The entering of the local context by the value compactor.
ValueEntered == value_active_context(active_context, active_property)

\* The entering of the local context by the List arm.
ListEntered ==
    list_active_context(active_context, type_scoped_context, active_property)

\* The first item of the collection whose compaction fails, 0 when none
\* does.
FirstFailing ==
    LET bad == {i \in 1..Len(element) : Compacted[i].k = "err"}
    IN IF bad = {} THEN 0 ELSE CHOOSE i \in bad : \A j \in bad : i <= j

\* C14: a failure of the expansion, of the compaction of an item of a
\* collection, or of the processing of a local context by the value
\* compactor or the List arm is what the enclosing call returns, in place
\* of any JSON value; the items that follow the failing item of a
\* collection are not compacted.
C14_ErrorPropagates ==
    pc = "done" =>
        /\ (entry = "document" /\ ~element.ok) =>
              result = Err(element.error) /\ visited = 0
        /\ (entry = "collection" /\ FirstFailing > 0) =>
              result = Compacted[FirstFailing] /\ visited = FirstFailing
        /\ (entry = "collection" /\ FirstFailing = 0) =>
              result.k # "err" /\ visited = Len(element)
        /\ (entry = "value" /\ ~ValueEntered.ok) =>
              result = Err(ValueEntered.error)
        /\ (entry = "object" /\ ~ListEntered.ok) =>
              result = Err(ListEntered.error)

\* The first of two items was compacted, the second failed: the error is
\* returned.
C14_Witness ==
    /\ pc = "done" /\ entry = "collection" /\ Len(element) = 2
    /\ Compacted[1].k # "err" /\ Compacted[2].k = "err"
    /\ result = Err("InvalidLocalContext") /\ visited = 2

\* The first of two items failed: the second was not compacted.
C14_WitnessStopped ==
    /\ pc = "done" /\ entry = "collection" /\ Len(element) = 2
    /\ FirstFailing = 1 /\ visited = 1 /\ result.k = "err"

-----------------------------------------------------------------------------
(* add_value.                                                              *)

\* add_value was called.
Added == entry = "add_value" /\ call # <<>>

\* The four cases of a value that is not an array.
Inserted(m, k, v, as_array) ==
    IF k \notin DOMAIN m
    THEN IF as_array THEN insert(m, k, Arr(<<v>>)) ELSE insert(m, k, v)
    ELSE IF m[k].k = "arr"
         THEN insert(m, k, Arr(Append(m[k].items, v)))
         ELSE insert(m, k, Arr(<<m[k], v>>))

RECURSIVE InsertedEach(_, _, _, _)

\* The elements of an array inserted one by one, in order, by the same
\* cases.
InsertedEach(m, k, v, as_array) ==
    IF v.k # "arr" THEN Inserted(m, k, v, as_array)
    ELSE IF v.items = <<>> THEN m
    ELSE InsertedEach(InsertedEach(m, k, Head(v.items), as_array), k,
                      Arr(Tail(v.items)), as_array)

RECURSIVE Leaves(_)

\* The values that are not arrays within v, in order.
Leaves(v) ==
    IF v.k # "arr" THEN <<v>>
    ELSE IF v.items = <<>> THEN <<>>
    ELSE Leaves(Head(v.items)) \o Leaves(Arr(Tail(v.items)))

\* What add_value does to the entry before it inserts the elements of an
\* array: a value that is not an array is wrapped, an absent entry is
\* seeded with the empty array when as_array is set.
Prepared(m, k, as_array) ==
    IF k \in DOMAIN m
    THEN IF m[k].k = "arr" THEN m ELSE insert(m, k, Arr(<<m[k]>>))
    ELSE IF as_array THEN insert(m, k, Arr(<<>>)) ELSE m

\* C15, as stated: a value that is not an array is inserted by the four
\* cases, and the elements of an array are inserted one by one, in order,
\* by these same cases.
C15_InsertedEach ==
    Added =>
        element.m = InsertedEach(call[1].map, call[1].key, call[1].value,
                                 call[1].as_array)

\* C15, amended: as stated for a value that is not an array and for an
\* array that holds such a value at some depth; an array that holds none
\* (the empty array) still wraps an entry that is not an array and, with
\* as_array set, seeds an absent entry with the empty array.
C15_InsertedOrPrepared ==
    Added =>
        LET c == call[1]
        IN IF Leaves(c.value) # <<>>
           THEN element.m = InsertedEach(c.map, c.key, c.value, c.as_array)
           ELSE element.m = Prepared(c.map, c.key, c.as_array)

\* An array of two values was added to an entry that was not an array: the
\* entry holds the three values.
C15_Witness ==
    /\ Added /\ call[1].value = Arr(<<Num(1), Str("a")>>)
    /\ call[1].key \in DOMAIN call[1].map
    /\ call[1].map[call[1].key] = Str("a")
    /\ element.m[call[1].key] = Arr(<<Str("a"), Num(1), Str("a")>>)

\* The empty array was added to an entry that was not an array: the entry
\* is wrapped.
C15_WitnessEmpty ==
    /\ Added /\ call[1].value = Arr(<<>>)
    /\ call[1].key \in DOMAIN call[1].map
    /\ call[1].map[call[1].key] = Num(1)
    /\ element.m[call[1].key] = Arr(<<Num(1)>>)

\* The entry of k in the object m is an array.
IsArrayAt(m, k) == k \in DOMAIN m /\ m[k].k = "arr"

\* After a call with as_array set the entry of the key is an array.
ArrayShape ==
    (Added /\ call[1].as_array) => IsArrayAt(element.m, call[1].key)

\* An entry that is an array stays an array, and its elements stay at the
\* head of it, in the same order.
ArrayKept ==
    entry = "add_value" =>
        \A k \in AddKeys :
            IsArrayAt(element.m, k) =>
                /\ IsArrayAt(element'.m, k)
                /\ Len(element'.m[k].items) >= Len(element.m[k].items)
                /\ SubSeq(element'.m[k].items, 1, Len(element.m[k].items))
                      = element.m[k].items

\* C16: after add_value with as_array set the entry of the key is present
\* and is an array, for every value, the empty array included; and every
\* call of add_value, whatever its key, value and flag, leaves an entry
\* that is an array an array that begins with the elements it held.
C16_ArrayShapeKept == []ArrayShape /\ [][ArrayKept]_vars

\* The empty array was added with as_array set under a key that was absent:
\* the entry is the empty array.
C16_Witness ==
    /\ Added /\ call[1].as_array /\ call[1].value = Arr(<<>>)
    /\ call[1].key \notin DOMAIN call[1].map
    /\ element.m[call[1].key] = Arr(<<>>)

\* A value was added without as_array to an entry that held an array of two
\* elements: they are the first two of three.
C16_WitnessPrefix ==
    /\ Added /\ ~call[1].as_array
    /\ IsArrayAt(call[1].map, call[1].key)
    /\ Len(call[1].map[call[1].key].items) = 2
    /\ Len(element.m[call[1].key].items) = 3
    /\ SubSeq(element.m[call[1].key].items, 1, 2) = call[1].map[call[1].key].items

-----------------------------------------------------------------------------
(* The contexts are not changed.                                           *)

\* The result of a collection is made of the items compacted, each of them,
\* under the contexts that were passed to the collection.
ItemsUnderPassedContexts ==
    CollectionReturned =>
        \/ result = Arr(Survivors)
        \/ Len(Survivors) = 1 /\ result = Survivors[1]

\* C17: no call changes the active context or the type-scoped context it
\* was passed, and every item of a collection is compacted under these
\* contexts, whatever local context was entered for an earlier item.
C17_ContextsKept ==
    /\ []ItemsUnderPassedContexts
    /\ [][/\ active_context' = active_context
          /\ type_scoped_context' = type_scoped_context]_vars

\* Two values were compacted under a property whose local context defines
\* the property with a further local context: the second value is compacted
\* as the first is, the further local context is not entered.
C17_Witness ==
    /\ CollectionReturned /\ Len(element) = 2 /\ active_property = "p"
    /\ active_context.terms["p"].context = <<LcNested>>
    /\ \A i \in 1..2 : element[i].inner.kind = "Value"
    /\ result.k = "arr" /\ Len(result.items) = 2
    /\ result.items[2] = compact_with(element[2], active_context,
                                      type_scoped_context, "p", options)
    /\ result.items[2] #
          compact_with(element[2], ValueEntered.context, type_scoped_context,
                       "p", options)

-----------------------------------------------------------------------------
(* The order of the context switches of the List arm.                      *)

\* The previous context of the incoming active context, the incoming
\* context itself when it has none.
Restored ==
    IF active_context.previous_context # <<>>
    THEN active_context.previous_context[1] ELSE active_context

\* The local context of the definition of the active property in the
\* type-scoped context: <<>> for none.
ListLocalContext ==
    IF active_property # None /\ active_property \in DOMAIN type_scoped_context.terms
    THEN type_scoped_context.terms[active_property].context ELSE <<>>

\* The context the items are to be compacted under: the local context
\* processed against the restored context, the restored context when there
\* is no local context.
RestoredThenEntered ==
    IF ListLocalContext # <<>>
    THEN process_with(ListLocalContext[1], Restored).context
    ELSE Restored

\* The items of the list compacted under the context ctx and the property
\* property.
ListItemsUnder(ctx, property) ==
    [i \in 1..Len(element.list) |->
        compact_with(element.list[i], ctx, ctx, property, options)]

\* C18: the list is compacted under the context obtained by restoring the
\* previous context of the incoming active context first and processing
\* then the local context of the definition found in the type-scoped
\* context against the restored context: the items and the keys of the
\* result are those of that context, and the context that was entered is
\* linked to the restored context, not to the incoming one.
C18_RestoredThenEntered ==
    ListReturned =>
        /\ ListContext = RestoredThenEntered
        /\ ListLocalContext # <<>> =>
              RestoredThenEntered.previous_context = <<Restored>>
        /\ IF "@list" \in ContainerIn(type_scoped_context)
           THEN LET items == SelectSeq(ListItemsUnder(RestoredThenEntered,
                                                      active_property),
                                       LAMBDA j : j # Null)
                IN \/ result = Arr(items)
                   \/ Len(items) = 1 /\ result = items[1]
           ELSE LET key == compact_iri(RestoredThenEntered, "@list")
                    items == ListItemsUnder(RestoredThenEntered, key)
                IN /\ key \in DOMAIN result.m
                   /\ \/ result.m[key] = Arr(items)
                      \/ Len(items) = 1 /\ result.m[key] = items[1]

\* A list came under a term-scoped context that defines an alias of @list
\* over a previous context that does not, the property having a local
\* context: the result has the key @list, the alias is not in force.
C18_Witness ==
    /\ ListReturned /\ active_context = ListScopedAliases
    /\ ListLocalContext # <<>> /\ Len(element.list) = 2
    /\ result.k = "obj" /\ "@list" \in DOMAIN result.m
    /\ "list" \notin DOMAIN result.m

-----------------------------------------------------------------------------
(* The local context of the active property in the value compactor.        *)

\* The local context of the definition of the active property in the
\* incoming active context: <<>> for none.
ValueLocalContext ==
    IF active_property # None /\ active_property \in DOMAIN active_context.terms
    THEN active_context.terms[active_property].context ELSE <<>>

\* The local context processed against the incoming context.
ValueProcessed == process_with(ValueLocalContext[1], active_context).context

\* The definition of the active property in the context ctx, the default
\* definition when there is none.
DefinitionIn(ctx) ==
    IF active_property # None /\ active_property \in DOMAIN ctx.terms
    THEN ctx.terms[active_property] ELSE DefaultDefinition

\* C19: when the definition of the active property in the incoming context
\* has a local context, the value is compacted as the Value Compaction
\* algorithm compacts it in the context that processing the local context
\* against the incoming context gives: definition of the property,
\* defaults and keyword aliases are those of that context.  Otherwise the
\* context in effect is the incoming context itself.
C19_LocalContextEntered ==
    ValueReturned =>
        IF ValueLocalContext # <<>>
        THEN /\ process_with(ValueLocalContext[1], active_context).ok
             /\ Effective = ValueProcessed
             /\ Effective.previous_context = <<active_context>>
             /\ PropertyType = DefinitionIn(ValueProcessed).typ
             /\ PropertyContainer = DefinitionIn(ValueProcessed).container
             /\ result = value_compaction(element, index, ValueProcessed,
                                          active_property)
        ELSE /\ Effective = active_context
             /\ result = value_compaction(element, index, active_context,
                                          active_property)

\* A literal of type T1 was compacted under a property that the incoming
\* context leaves untyped and without aliases and that the local context
\* types T1: the scalar is returned; an indexed string is returned under
\* the alias of @value that only the local context defines.
C19_Witness ==
    /\ ValueReturned /\ ValueLocalContext = <<LcTyped>>
    /\ "val" \notin DOMAIN active_context.terms
    /\ \/ element = Literal(Num(1), IriT1) /\ result = Num(1)
       \/ /\ element = Literal(Str("a"), None)
          /\ result.k = "obj" /\ "val" \in DOMAIN result.m

-----------------------------------------------------------------------------
(* Effective language, direction, type and container.                      *)

\* The definition of the active property in the context in effect: <<>> for
\* none.
EffectiveDefinition == property_definition(Effective, active_property)

\* The mapping m of a definition decides: null gives an absent value, a tag
\* gives the tag; the default is for a mapping that is not set.
MappingOrDefault(m, default) ==
    IF m = Unset THEN default
    ELSE IF m = ExplicitNull THEN None ELSE m

\* C20: the effective language (direction) is the mapping of the active
\* property whenever it is set, absent when it is set to null, and the
\* default of the context only when it is not set or the property has no
\* definition; without definition the container is empty and there is no
\* type mapping.  An untyped string with no index is returned bare exactly
\* when both effective values are absent.
C20_EffectiveMappings ==
    ValueReturned =>
        /\ language_of(Effective, EffectiveDefinition) =
              (IF HasDefinition
               THEN MappingOrDefault(DefinitionIn(Effective).language,
                                     Effective.default_language)
               ELSE Effective.default_language)
        /\ direction_of(Effective, EffectiveDefinition) =
              (IF HasDefinition
               THEN MappingOrDefault(DefinitionIn(Effective).direction,
                                     Effective.default_base_direction)
               ELSE Effective.default_base_direction)
        /\ ~HasDefinition =>
              /\ container_mapping_of(EffectiveDefinition) = {}
              /\ type_mapping_of(EffectiveDefinition) = None
        /\ (/\ element.variant = "Literal" /\ element.lit.k = "str"
            /\ element.ty = None /\ index = None
            /\ type_mapping_of(EffectiveDefinition) = None) =>
              (result = element.lit <=>
                 /\ (IF HasDefinition
                     THEN MappingOrDefault(DefinitionIn(Effective).language,
                                           Effective.default_language)
                     ELSE Effective.default_language) = None
                 /\ (IF HasDefinition
                     THEN MappingOrDefault(DefinitionIn(Effective).direction,
                                           Effective.default_base_direction)
                     ELSE Effective.default_base_direction) = None)

\* An untyped string was compacted under a property whose language and
\* direction mappings are null, in a context with a default language and a
\* default direction: the defaults are not consulted, the string is bare.
C20_Witness ==
    /\ ValueReturned /\ HasDefinition
    /\ DefinitionIn(Effective).language = ExplicitNull
    /\ DefinitionIn(Effective).direction = ExplicitNull
    /\ Effective.default_language = "fr"
    /\ Effective.default_base_direction = "rtl"
    /\ element = Literal(Str("a"), None) /\ index = None
    /\ result = Str("a")


-----------------------------------------------------------------------------
(* The suspension points of one compaction.                                *)

RECURSIVE tree_loads(_, _, _, _)

\* The process_with calls of the expanded tree under items, in pre-order:
\* the call of an item, then the calls of the items below it, then the
\* calls of the items after it, up to the first call that fails.
tree_loads(items, ctx, type_scoped, property) ==
    IF items = <<>> THEN [log |-> <<>>, ok |-> TRUE]
    ELSE LET item == Head(items)
             own == pending_load(item, ctx, type_scoped, property)
             outcome == IF own = <<>>
                        THEN [ok |-> TRUE,
                              context |->
                                IF item.inner.kind = "List"
                                THEN list_active_context(ctx, type_scoped,
                                                         property).context
                                ELSE ctx]
                        ELSE process_with(own[1].local, own[1].against)
         IN IF ~outcome.ok THEN [log |-> own, ok |-> FALSE]
            ELSE LET below ==
                       IF item.inner.kind = "List"
                       THEN tree_loads(item.inner.list, outcome.context,
                                       outcome.context,
                                       IF list_container_of(type_scoped,
                                                            property)
                                       THEN property
                                       ELSE compact_iri(outcome.context,
                                                        "@list"))
                       ELSE [log |-> <<>>, ok |-> TRUE]
                 IN IF ~below.ok
                    THEN [log |-> own \o below.log, ok |-> FALSE]
                    ELSE LET after == tree_loads(Tail(items), ctx,
                                                 type_scoped, property)
                         IN [log |-> own \o below.log \o after.log,
                             ok |-> after.ok]

PreOrder ==
    tree_loads(element, active_context, type_scoped_context, active_property)

IsPrefix(p, q) == Len(p) <= Len(q) /\ p = SubSeq(q, 1, Len(p))

\* The calls in flight are at most one, the calls issued so far are the
\* first calls of the pre-order, and a compaction that returned has issued
\* them all and returns what the compaction taken as one step returns.
Sequential ==
    entry = "steps" =>
        /\ Len(in_flight) <= 1
        /\ IsPrefix(loads, PreOrder.log)
        /\ pc = "done" =>
              /\ in_flight = <<>>
              /\ loads = PreOrder.log
              /\ result = compact_collection_with(element, active_context,
                                                  type_scoped_context,
                                                  active_property, options)
              /\ (result.k = "err") = ~PreOrder.ok

\* An item of the outermost loop starts when no call is in flight and no
\* loop of the item before it is still running.
ItemsInTurn ==
    (entry = "steps" /\ visited' > visited) =>
        (in_flight = <<>> /\ Len(frames) = 1)

\* C21: within one compaction the suspension points are sequential: at most
\* one process_with call is in flight at any time, the compaction of an
\* item of a collection, with every context load it triggers, is over
\* before the next item starts, and the context loads are issued in the
\* pre-order of the traversal of the expanded tree.
C21_Sequential == []Sequential /\ [][ItemsInTurn]_vars

\* A compaction that returned after three loads or more, issued for an item
\* of the outermost loop, for the items of the list below it and for the
\* item after it.
C21_Witness ==
    /\ entry = "steps" /\ pc = "done" /\ result.k # "err"
    /\ Len(element) = 2
    /\ element[1].inner.kind = "List"
    /\ Len(loads) >= 4
    /\ loads[1] # loads[2]
    /\ loads[Len(loads)] = loads[1]

\* A compaction left by the failure of a load below the first item, the
\* second item never started.
C21_WitnessFailed ==
    /\ entry = "steps" /\ pc = "done" /\ result.k = "err"
    /\ Len(element) = 2
    /\ visited = 1
    /\ Len(loads) = 2


-----------------------------------------------------------------------------
(* Equality of term definitions.                                           *)

DefinitionsCompared == pc = "done" /\ entry = "definition_eq"

\* The fields that two equal definitions agree on.
ComparedFields ==
    {"value", "prefix", "reverse_property", "base_url", "context",
     "container", "direction", "index", "language", "nest", "typ"}

Agree(a, b) == \A f \in ComparedFields : a[f] = b[f]

\* C22: two term definitions compare equal exactly when they agree on
\* value, prefix, reverse_property, base_url, context, container,
\* direction, index, language, nest and typ, whatever their protected
\* flags; the comparison is reflexive, symmetric and transitive.
C22_DefinitionEquality ==
    DefinitionsCompared =>
        /\ result.ab = Agree(element[1], element[2])
        /\ result.aa
        /\ result.ab = result.ba
        /\ (result.ab /\ result.bc) => result.ac

\* Two definitions that differ in the protected flag alone compare equal,
\* and the second differs from the third in one compared field.
C22_Witness ==
    /\ DefinitionsCompared
    /\ element[1].protected # element[2].protected
    /\ result.ab
    /\ ~result.bc
    /\ \E f \in ComparedFields :
          /\ element[2][f] # element[3][f]
          /\ \A g \in ComparedFields \ {f} : element[2][g] = element[3][g]


-----------------------------------------------------------------------------
(* Graph objects.                                                          *)

NodeInspected == pc = "done" /\ entry = "node"

\* The node has a graph and no types, included set, property or reverse
\* property.
GraphOnly ==
    /\ element.graph # <<>>
    /\ Len(element.types) = 0
    /\ element.included = <<>>
    /\ \A p \in {IriP} : p \notin DOMAIN element.properties
    /\ \A p \in {IriP} : p \notin DOMAIN element.reverse_properties

\* C23: is_graph holds exactly when the node has a graph and no types, no
\* included set, no properties and no reverse properties, whatever its id;
\* is_simple_graph and is_unnamed_graph agree and hold exactly when
\* is_graph holds and the id is absent; into_unnamed_graph returns the
\* graph exactly when is_unnamed_graph holds and gives the node back
\* unchanged otherwise.
C23_GraphPredicates ==
    NodeInspected =>
        /\ result.is_graph = GraphOnly
        /\ result.is_simple_graph = result.is_unnamed_graph
        /\ result.is_unnamed_graph = (GraphOnly /\ element.id = None)
        /\ result.into.ok = result.is_unnamed_graph
        /\ result.into.ok => result.into.graph = element.graph[1]
        /\ ~result.into.ok => result.into.node = element

\* A graph with an identifier is a graph but not an unnamed one: the node
\* is given back.
C23_Witness ==
    /\ NodeInspected
    /\ element.id # None
    /\ result.is_graph
    /\ ~result.is_unnamed_graph
    /\ ~result.into.ok

\* An unnamed graph gives its non-empty graph.
C23_WitnessGraph ==
    /\ NodeInspected
    /\ result.into.ok
    /\ result.into.graph # <<>>


-----------------------------------------------------------------------------
(* The array of a compacted collection.                                    *)

\* The items whose compaction is not null.
Surviving == {i \in 1..Len(element) : Compacted[i] # Null}

\* The place of item i among the surviving items.
Rank(i) == Cardinality({j \in Surviving : j <= i})

\* array holds the non-null compacted items and nothing else, in
\* iteration order.
NonNullInOrder(array) ==
    /\ Len(array) = Cardinality(Surviving)
    /\ \A i \in Surviving : array[Rank(i)] = Compacted[i]
    /\ \A j \in 1..Len(array) : array[j] # Null

\* The active property lets a lone survivor be unwrapped.
Unwrappable ==
    /\ options.compact_arrays
    /\ active_property \notin {"@graph", "@set"}
    /\ ContainerIn(active_context) \cap {"@list", "@set"} = {}

\* C24: the array built when compacting a collection consists of exactly
\* the non-null compacted results of the items, in iteration order: a null
\* result is not in the array and is not counted when the array is
\* unwrapped to its only element.
C24_NonNullInOrder ==
    CollectionReturned =>
        /\ \/ result.k = "arr" /\ NonNullInOrder(result.items)
           \/ NonNullInOrder(<<result>>)
        /\ Cardinality(Surviving) # 1 =>
              result.k = "arr" /\ NonNullInOrder(result.items)
        /\ (Cardinality(Surviving) = 1 /\ Unwrappable) =>
              \A i \in Surviving : result = Compacted[i]

\* A set whose first item is a null literal with the type of the property
\* (none): under a set container the array holds the other item alone.
C24_Witness ==
    /\ CollectionReturned
    /\ Len(element) = 2
    /\ element[1].inner.kind = "Value"
    /\ element[1].inner.value = Literal(Null, None)
    /\ Compacted[1] = Null
    /\ "@set" \in ContainerIn(active_context)
    /\ result.k = "arr" /\ Len(result.items) = 1
    /\ result.items[1] = Compacted[2]


-----------------------------------------------------------------------------
(* The top level of the set returned by expand.                            *)

ExpandReturned == pc = "done" /\ entry = "expand" /\ result.k = "set"

NoValue(items) == \A i \in 1..Len(items) : items[i].inner.kind # "Value"

-----------------------------------------------------------------------------
(* The end of Document::compact_with.                                      *)

-----------------------------------------------------------------------------
(* The branches of add_value.                                              *)

\* No call so far took the unreachable!() branch: no entry of the object
\* and no item of an entry is the mark it leaves.
NoneUnreachable ==
    entry = "add_value" =>
        \A k \in DOMAIN element.m :
            /\ element.m[k].k # "panic"
            /\ element.m[k].k = "arr" =>
                  \A i \in 1..Len(element.m[k].items) :
                      element.m[k].items[i].k # "panic"

\* A call changes no entry under another key.
OthersKept ==
    (entry = "add_value" /\ call' # call) =>
        \A k \in AddKeys \ {call'[1].key} :
            /\ (k \in DOMAIN element'.m) = (k \in DOMAIN element.m)
            /\ k \in DOMAIN element.m => element'.m[k] = element.m[k]

\* C27: the unreachable!() branch of add_value is never reached, whatever
\* the map, the key, the value (a scalar, an object, an empty array, nested
\* arrays) and as_array: when a value that is not an array is inserted the
\* entry under the key is absent or an array; and add_value leaves every
\* entry under another key unchanged.
C27_NeverUnreachable == []NoneUnreachable /\ [][OthersKept]_vars

\* An object was added under a key that held a scalar, another key holding
\* an entry of its own.
C27_Witness ==
    /\ entry = "add_value" /\ call # <<>>
    /\ call[1].key = "k"
    /\ "k" \in DOMAIN call[1].map /\ call[1].map["k"].k \in {"num", "str"}
    /\ "j" \in DOMAIN call[1].map
    /\ call[1].value.k = "obj"
    /\ element.m["k"] = Arr(<<call[1].map["k"], call[1].value>>)
    /\ element.m["j"] = call[1].map["j"]


-----------------------------------------------------------------------------
(* Arrays and objects under json_ld_eq.                                    *)

JsonCompared == pc = "done" /\ entry = "json_ld_eq"

\* The permutations of 1..n.
Orderings(n) ==
    {f \in [1..n -> 1..n] : \A i, j \in 1..n : i # j => f[i] # f[j]}

\* items in the order f.
Permuted(items, f) == [i \in 1..Len(items) |-> items[f[i]]]

\* The items of x and y can be paired one-to-one into equal pairs.
Paired(x, y) ==
    /\ Len(x) = Len(y)
    /\ \E f \in Orderings(Len(x)) :
          \A i \in 1..Len(x) : json_ld_eq(x[i], y[f[i]])

\* The items of x and y are equal position by position.
InOrder(x, y) ==
    /\ Len(x) = Len(y)
    /\ \A i \in 1..Len(x) : json_ld_eq(x[i], y[i])

\* The values under a key of two objects are equal.
EntryEqual(key, x, y) ==
    IF key = "@list" /\ x.k = "arr" /\ y.k = "arr"
    THEN InOrder(x.items, y.items)
    ELSE json_ld_eq(x, y)

\* C28: two arrays are equal exactly when they have the same length and
\* their items can be paired one-to-one into equal pairs, so that no
\* permutation of either changes the result; an array that is the value of
\* an @list key is compared position by position; two objects are equal
\* exactly when they have the same keys and equal values under every key.
C28_Unordered ==
    JsonCompared =>
        LET a == element[1]
            b == element[2]
        IN /\ (a.k = "arr" /\ b.k = "arr") =>
                 /\ result.ab = Paired(a.items, b.items)
                 /\ \A f \in Orderings(Len(a.items)) :
                       json_ld_eq(Arr(Permuted(a.items, f)), b) = result.ab
                 /\ \A f \in Orderings(Len(b.items)) :
                       json_ld_eq(a, Arr(Permuted(b.items, f))) = result.ab
           /\ (a.k = "obj" /\ b.k = "obj") =>
                 result.ab = /\ DOMAIN a.m = DOMAIN b.m
                             /\ \A key \in DOMAIN a.m :
                                   EntryEqual(key, a.m[key], b.m[key])

\* Two arrays in different orders are equal, and the objects that hold
\* them under @list are not.
C28_Witness ==
    /\ JsonCompared
    /\ element[1].k = "obj" /\ element[2].k = "obj"
    /\ DOMAIN element[1].m = {"@list"} /\ DOMAIN element[2].m = {"@list"}
    /\ element[1].m["@list"].k = "arr" /\ element[2].m["@list"].k = "arr"
    /\ json_ld_eq(element[1].m["@list"], element[2].m["@list"])
    /\ element[1].m["@list"] # element[2].m["@list"]
    /\ ~result.ab

\* C29: json_ld_eq is an equivalence: json_ld_eq(a, a) holds for every
\* JSON value of every kind, and json_ld_eq(a, b) equals json_ld_eq(b, a).
C29_Equivalence ==
    JsonCompared =>
        /\ result.aa
        /\ result.ab = result.ba


-----------------------------------------------------------------------------
(* Insertions into a node.                                                 *)

\* The nodes of a reverse property, none when the node has no such
\* reverse property.
Reverse(node, p) ==
    IF p \in DOMAIN node.reverse_properties
    THEN node.reverse_properties[p] ELSE <<>>

\* What the call just made inserted under the property p, and under the
\* reverse property p.
InsertedUnder(p) ==
    IF call'[1].op \in {"insert", "insert_all"} /\ call'[1].prop = p
    THEN call'[1].values ELSE <<>>

InsertedUnderReverse(p) ==
    IF call'[1].op \in {"insert_reverse", "insert_all_reverse"}
       /\ call'[1].prop = p
    THEN call'[1].values ELSE <<>>

\* A call appends what it inserts to the objects of its property, in
\* order, and changes nothing else of the node.
InsertionStep ==
    (entry = "node_insert" /\ visited' # visited) =>
        /\ \A p \in InsertProperties :
              /\ get(element', p) = get(element, p) \o InsertedUnder(p)
              /\ Reverse(element', p) =
                     Reverse(element, p) \o InsertedUnderReverse(p)
              /\ InsertedUnder(p) # <<>> => has_key(element', p)
        /\ element'.id = element.id
        /\ element'.types = element.types
        /\ element'.graph = element.graph
        /\ element'.included = element.included

\* A node is created with no property, and a node with an object under a
\* property has the key of the property and is neither empty nor a graph.
InsertedKept ==
    entry = "node_insert" =>
        /\ visited = 0 => \A p \in InsertProperties : get(element, p) = <<>>
        /\ \A p \in InsertProperties :
              get(element, p) # <<>> =>
                 /\ has_key(element, p)
                 /\ ~node_is_empty(element)
                 /\ ~is_graph(element)

\* C30: after any sequence of insert, insert_all, insert_reverse and
\* insert_all_reverse calls get(p) yields the objects inserted under p, in
\* insertion order; an insertion under p changes no other property or
\* reverse property, nor the id, types, graph and included set; has_key(p)
\* holds once an object was inserted under p; and a node with an inserted
\* property is neither empty nor a graph object.
C30_Insertions == []InsertedKept /\ [][InsertionStep]_vars

\* A graph into which three objects were inserted under p by two calls,
\* and a node under the reverse property p: get(p) yields the three in
\* order and the node is no longer a graph.
C30_Witness ==
    /\ entry = "node_insert" /\ visited = 3
    /\ element.graph # <<>>
    /\ get(element, IriP) = <<ValueItem, NodeItem, ValueItem>>
    /\ Reverse(element, IriP) # <<>>
    /\ call[1].op = "insert_reverse"
    /\ ~is_graph(element)

====
